---- MODULE Spec2Model ----
(***************************************************************************)
(* Retrieval core of the SEMP requirements-debt analyzer:                  *)
(*   - DocumentProcessor.chunk_text      (src/src/rag/document_processor.py)*)
(*   - SimpleVectorStore                 (src/src/rag/vector_store.py)      *)
(*   - SEMPKnowledgeBase ingestion       (src/src/rag/knowledge_base.py)    *)
(* The store the knowledge base holds (imported under the name VectorStore)*)
(* is modelled by the SimpleVectorStore of this repository.                *)
(* Strings are sequences of one-character strings.  Vectors are pairs of   *)
(* integers; a stored (normalised) vector is kept in units of 1/UnitScale. *)
(***************************************************************************)
EXTENDS Integers, Sequences, FiniteSets, TLC

VARIABLES
    ck_pc,          \* chunker run: "ready" | "done"
    ck_text,        \* the text handed to chunk_text
    ck_size,        \* settings.chunk_size
    ck_overlap,     \* settings.chunk_overlap
    ck_chunks,      \* the list chunk_text returned
    vs_index,       \* SimpleVectorStore.index: the vectors held by the FAISS index
    vs_texts,       \* SimpleVectorStore.texts
    vs_metadata,    \* SimpleVectorStore.metadata
    vs_dim,         \* SimpleVectorStore.index.d: the dimension of the FAISS index
    sr_call,        \* the last call on the store (or search of the knowledge
                    \* base) and its arguments
    sr_result,      \* what that call returned, or that it raised
    fs_index,       \* the persisted FAISS index file (storage_path)
    fs_meta,        \* the persisted sibling JSON file (metadata_path)
    fs_cache,       \* the persisted document_metadata.json
    s3_modified,    \* the bucket: document key -> LastModified, 0 when not stored
    kb_cache,       \* SEMPKnowledgeBase.document_metadata
    kb_pc,          \* where initialize_knowledge_base stands
    kb_todo,        \* documents_to_process
    kb_pos,         \* position (from 1) of the loop over documents_to_process
    kb_call,        \* history of the running or last initialize_knowledge_base call
    kb_faults,      \* failures of collaborators and process deaths so far
    dp_line_endings,\* DocumentProcessor.line_endings
    dp_page_breaks, \* DocumentProcessor.page_breaks
    db_chat         \* the item of the session in the chat history table

ck_vars == <<ck_pc, ck_text, ck_size, ck_overlap, ck_chunks>>

vs_vars == <<vs_index, vs_texts, vs_metadata, vs_dim>>

sr_vars == <<sr_call, sr_result>>

fs_vars == <<fs_index, fs_meta, fs_cache>>

kb_vars == <<s3_modified, kb_cache, kb_pc, kb_todo, kb_pos, kb_call, kb_faults>>

dp_vars == <<dp_line_endings, dp_page_breaks>>

db_vars == <<db_chat>>

vars == <<ck_vars, vs_vars, sr_vars, fs_vars, kb_vars, dp_vars, db_vars>>

(***************************************************************************)
(* Bounds of the model.                                                    *)
(***************************************************************************)
MaxTextLen == 6
MaxChunkSize == 2
MaxVectors == 3
MaxTopK == 2
MaxModified == 2
MaxIndexed == 4
MaxFaults == 2
MaxSaved == 2

(***************************************************************************)
(* Strings.                                                                *)
(***************************************************************************)
Chars == {"a", "b", " ", "."}

IsSpace(c) == c = " "

IsPunct(c) == c \in {".", "!", "?"}

RECURSIVE LStrip(_)
LStrip(s) ==
    IF s # <<>> /\ IsSpace(Head(s)) THEN LStrip(Tail(s)) ELSE s

RECURSIVE RStrip(_)
RStrip(s) ==
    IF s # <<>> /\ IsSpace(s[Len(s)]) THEN RStrip(SubSeq(s, 1, Len(s) - 1)) ELSE s

\* str.strip()
Strip(s) == RStrip(LStrip(s))

\* str.split(): the maximal runs of non-whitespace characters
RECURSIVE SplitWordsFrom(_, _, _, _)
SplitWordsFrom(s, i, cur, acc) ==
    IF i > Len(s)
    THEN IF cur = <<>> THEN acc ELSE Append(acc, cur)
    ELSE IF IsSpace(s[i])
         THEN SplitWordsFrom(s, i + 1, <<>>, IF cur = <<>> THEN acc ELSE Append(acc, cur))
         ELSE SplitWordsFrom(s, i + 1, Append(cur, s[i]), acc)

SplitWords(s) == SplitWordsFrom(s, 1, <<>>, <<>>)

\* " ".join(words)
RECURSIVE JoinWords(_)
JoinWords(words) ==
    IF words = <<>> THEN <<>>
    ELSE IF Len(words) = 1 THEN words[1]
    ELSE words[1] \o <<" ">> \o JoinWords(Tail(words))

\* re.split(r'[.!?]+', text): the pieces between maximal runs of punctuation
RECURSIVE ReSplitFrom(_, _, _, _)
ReSplitFrom(s, i, cur, acc) ==
    IF i > Len(s) THEN Append(acc, cur)
    ELSE IF IsPunct(s[i])
         THEN IF i > 1 /\ IsPunct(s[i - 1])
              THEN ReSplitFrom(s, i + 1, cur, acc)
              ELSE ReSplitFrom(s, i + 1, <<>>, Append(acc, cur))
         ELSE ReSplitFrom(s, i + 1, Append(cur, s[i]), acc)

ReSplit(s) == ReSplitFrom(s, 1, <<>>, <<>>)

RECURSIVE StripNonEmpty(_)
StripNonEmpty(pieces) ==
    IF pieces = <<>> THEN <<>>
    ELSE IF Strip(Head(pieces)) # <<>>
         THEN <<Strip(Head(pieces))>> \o StripNonEmpty(Tail(pieces))
         ELSE StripNonEmpty(Tail(pieces))

(***************************************************************************)
(* DocumentProcessor: chunking.                                            *)
(***************************************************************************)
\* _split_into_sentences
SplitIntoSentences(text) == StripNonEmpty(ReSplit(text))

\* Python's words[-n:]: the last n elements, and the whole list when n = 0
PyLastSlice(words, n) ==
    IF n = 0 THEN words
    ELSE SubSeq(words, Len(words) - n + 1, Len(words))

\* the slice a chunker that carries exactly n words would take
LastWords(words, n) == SubSeq(words, Len(words) - n + 1, Len(words))

\* an overlap taken from the front of the chunk instead of its end
GetOverlapText_FirstWords(text, overlap) ==
    LET words == SplitWords(text)
    IN  JoinWords(SubSeq(words, 1, IF Len(words) > overlap THEN overlap ELSE Len(words)))

\* _get_overlap_text
GetOverlapText(text, overlap) ==
    LET words == SplitWords(text)
        overlap_words == IF Len(words) > overlap THEN PyLastSlice(words, overlap) ELSE words
    IN  JoinWords(overlap_words)

\* a _create_chunk that numbers the chunks from 1
CreateChunk_IndexFromOne(text, chunk_index) ==
    [text       |-> Strip(text),
     chunk_index |-> chunk_index + 1,
     word_count |-> Len(SplitWords(text)),
     char_count |-> Len(text)]

\* _create_chunk (the metadata map is passed through untouched)
CreateChunk(text, chunk_index) ==
    [text       |-> Strip(text),
     chunk_index |-> chunk_index,
     word_count |-> Len(SplitWords(text)),
     char_count |-> Len(text)]

\* the for-loop of chunk_text and the trailing "add the last chunk"
\* opener is history only: the sentence that opened current_chunk (the first
\* sentence, or the one that triggered the rollover); it is recorded beside
\* the chunk as opened_by and read by no step of the loop.
RECURSIVE ChunkLoop(_, _, _, _, _, _, _)
ChunkLoop(sentences, chunks, current_chunk, current_size, size, overlap, opener) ==
    IF sentences = <<>>
    THEN IF Strip(current_chunk) # <<>>
         THEN Append(chunks, CreateChunk(current_chunk, Len(chunks)) @@ [opened_by |-> opener])
         ELSE chunks
    ELSE LET sentence == Head(sentences)
             sentence_size == Len(SplitWords(sentence))
         IN  IF current_size + sentence_size > size /\ current_chunk # <<>>
             THEN LET overlap_text == GetOverlapText(current_chunk, overlap)
                      next_chunk == IF overlap_text # <<>>
                                    THEN overlap_text \o <<" ">> \o sentence
                                    ELSE sentence
                  IN  ChunkLoop(Tail(sentences),
                                Append(chunks, CreateChunk(current_chunk, Len(chunks))
                                               @@ [opened_by |-> opener]),
                                next_chunk, Len(SplitWords(next_chunk)), size, overlap,
                                sentence)
             ELSE ChunkLoop(Tail(sentences), chunks,
                            IF current_chunk # <<>>
                            THEN current_chunk \o <<" ">> \o sentence
                            ELSE sentence,
                            current_size + sentence_size, size, overlap,
                            IF current_chunk # <<>> THEN opener ELSE sentence)

\* a chunk_text without its last step, "add the last chunk if it has content"
ChunkText_DropsLastChunk(text, size, overlap) ==
    IF text = <<>> \/ Strip(text) = <<>> THEN <<>>
    ELSE LET chunks == ChunkLoop(SplitIntoSentences(text), <<>>, <<>>, 0, size, overlap, <<>>)
         IN  SubSeq(chunks, 1, Len(chunks) - 1)

\* chunk_text
ChunkText(text, size, overlap) ==
    IF text = <<>> \/ Strip(text) = <<>> THEN <<>>
    ELSE ChunkLoop(SplitIntoSentences(text), <<>>, <<>>, 0, size, overlap, <<>>)

\* the chunker variables in the specifications that do not run the chunker
ChunkIdle ==
    /\ ck_pc = "off"
    /\ ck_text = <<>>
    /\ ck_size = 1
    /\ ck_overlap = 0
    /\ ck_chunks = <<>>

(***************************************************************************)
(* SimpleVectorStore.  A vector is a tuple of integers, a pair when it has *)
(* the configured dimension.  np.linalg.norm is                            *)
(* the integer square root (the input vectors all have an integer norm);   *)
(* a normalised vector is kept multiplied by UnitScale, an inner product   *)
(* of two normalised vectors, and so a score or a threshold, by            *)
(* UnitScale * UnitScale.                                                  *)
(***************************************************************************)
ZeroVector == <<0, 0>>

InputVectors == {<<0, 0>>, <<1, 0>>, <<3, 4>>, <<6, 8>>, <<0, -2>>, <<-4, -3>>}

\* the inner product of two vectors of one length
Dot(u, v) ==
    LET sum[n \in 0..Len(u)] == IF n = 0 THEN 0 ELSE sum[n - 1] + u[n] * v[n]
    IN  sum[Len(u)]

\* the largest finite number of the floating-point type, which stands for
\* that of np.float32: a larger result of an operation is infinite
FloatMax == 100

Infinity == FloatMax + 1

\* np.linalg.norm: the square root of the sum of squares, infinite when the
\* sum overflows
Norm(v) ==
    LET squares == Dot(v, v)
    IN  IF squares > FloatMax THEN Infinity
        ELSE CHOOSE n \in 0..squares : n * n = squares

\* the length at which normalised vectors are kept: the norm of <<3, 4>>
UnitScale == Norm(<<3, 4>>)

ScoreScale == UnitScale * UnitScale

\* vector / norm, skipped when the norm is zero; a finite number divided by
\* an infinite one is zero
Normalize(v) ==
    LET norm == Norm(v)
    IN  IF norm > 0
        THEN IF norm = Infinity
             THEN [i \in 1..Len(v) |-> 0]
             ELSE [i \in 1..Len(v) |-> (v[i] * UnitScale) \div norm]
        ELSE v

NoMetadata == [none |-> TRUE]

EmptyDict == [x \in {} |-> x]

\* metadata or {}
OrEmptyDict(metadata) == IF metadata = NoMetadata THEN EmptyDict ELSE metadata

\* the state of a store as a record, for the operators below
ThisStore ==
    [index |-> vs_index, texts |-> vs_texts, metadata |-> vs_metadata, d |-> vs_dim]

\* index.add and index.search refuse a vector whose length is not index.d
\* (faiss: assert d == self.d)
WrongDimension(store, vector) == Len(vector) # store.d

\* add_vector raises: index.add refuses the vector
AddVectorRaises(store, vector) == WrongDimension(store, vector)

\* add_vector: the store afterwards (as it was when index.add raises, which
\* happens before texts and metadata are touched)
AddVector(store, vector, text, metadata) ==
    IF AddVectorRaises(store, vector) THEN store
    ELSE [index    |-> Append(store.index, Normalize(vector)),
          texts    |-> Append(store.texts, text),
          metadata |-> Append(store.metadata, OrEmptyDict(metadata)),
          d        |-> store.d]

\* add_vector: the id returned
AddVectorId(store) == Len(store.texts)

Min(a, b) == IF a <= b THEN a ELSE b

\* a flat index that returns its vectors in insertion order, whatever their score
BestOf_InsertionOrder(index, query, remaining) ==
    CHOOSE i \in remaining : \A j \in remaining : i <= j

\* position (from 1) of the best remaining vector: the highest inner product,
\* the earliest inserted among equals
BestOf(index, query, remaining) ==
    CHOOSE i \in remaining :
        \A j \in remaining :
            \/ Dot(index[i], query) > Dot(index[j], query)
            \/ Dot(index[i], query) = Dot(index[j], query) /\ i <= j

\* faiss IndexFlatIP.search(query, k): the k best (score, position from 0), best first
RECURSIVE FaissSearchFrom(_, _, _, _)
FaissSearchFrom(index, query, k, remaining) ==
    IF k = 0 \/ remaining = {} THEN <<>>
    ELSE LET i == BestOf(index, query, remaining)
         IN  <<[score |-> Dot(index[i], query), idx |-> i - 1]>>
             \o FaissSearchFrom(index, query, k - 1, remaining \ {i})

FaissSearch(index, query, k) == FaissSearchFrom(index, query, k, 1..Len(index))

\* the filter without its threshold test
HitKept_NoThreshold(hit, score_threshold) == hit.idx >= 0

\* the hit passes the filter of the result loop
HitKept(hit, score_threshold) == hit.idx >= 0 /\ hit.score >= score_threshold

\* the result loop of search: the hits that pass, reshaped
RECURSIVE FormatHits(_, _, _)
FormatHits(store, hits, score_threshold) ==
    IF hits = <<>> THEN <<>>
    ELSE LET hit == Head(hits)
             rest == FormatHits(store, Tail(hits), score_threshold)
         IN  IF HitKept(hit, score_threshold)
             THEN <<[text     |-> store.texts[hit.idx + 1],
                     score    |-> hit.score,
                     metadata |-> store.metadata[hit.idx + 1],
                     index    |-> hit.idx]>> \o rest
             ELSE rest

\* search raises IndexError: a kept hit has no text or no metadata entry
SearchRaises(store, hits, score_threshold) ==
    \E n \in 1..Len(hits) :
        /\ HitKept(hits[n], score_threshold)
        /\ \/ hits[n].idx + 1 > Len(store.texts)
           \/ hits[n].idx + 1 > Len(store.metadata)

\* a search without the early return for an index that holds no vector
Search_NoEmptyCheck(store, query_vector, top_k, score_threshold) ==
    IF WrongDimension(store, query_vector) THEN [raised |-> TRUE, results |-> <<>>]
    ELSE LET query == Normalize(query_vector)
             hits == FaissSearch(store.index, query, Min(top_k, Len(store.index)))
         IN  IF SearchRaises(store, hits, score_threshold)
             THEN [raised |-> TRUE, results |-> <<>>]
             ELSE [raised |-> FALSE, results |-> FormatHits(store, hits, score_threshold)]

\* search
Search(store, query_vector, top_k, score_threshold) ==
    IF Len(store.index) = 0 THEN [raised |-> FALSE, results |-> <<>>]
    ELSE IF WrongDimension(store, query_vector) THEN [raised |-> TRUE, results |-> <<>>]
    ELSE LET query == Normalize(query_vector)
             hits == FaissSearch(store.index, query, Min(top_k, Len(store.index)))
         IN  IF SearchRaises(store, hits, score_threshold)
             THEN [raised |-> TRUE, results |-> <<>>]
             ELSE [raised |-> FALSE, results |-> FormatHits(store, hits, score_threshold)]

(***************************************************************************)
(* Persistence of the vector store and of the document cache.  A file is   *)
(* absent, corrupt (unreadable or cut short) or holds data.                *)
(***************************************************************************)
FileAbsent == [state |-> "absent"]

FileCorrupt == [state |-> "corrupt"]

FileOf(data) == [state |-> "ok", data |-> data]

Dimension == Len(ZeroVector)

\* the store __init__ builds before _load, and the one _load falls back to
EmptyStore == [index |-> <<>>, texts |-> <<>>, metadata |-> <<>>, d |-> Dimension]

\* save: faiss.write_index writes the dimension of the index and its vectors
WriteIndexFile(store) == FileOf([d |-> store.d, vectors |-> store.index])

\* json.dump of a dict: a JSON object, the set of its key/value members
JsonDumpObject(dict) == {<<key, dict[key]>> : key \in DOMAIN dict}

\* a reader that loses the members of every object
JsonLoadObject_NoMembers(members) == EmptyDict

\* json.load of a JSON object: the dict of its members
JsonLoadObject(members) ==
    [key \in {member[1] : member \in members} |->
        (CHOOSE member \in members : member[1] = key)[2]]

\* save: json.dump of metadata, texts and dimension
WriteMetaFile(store) ==
    FileOf([metadata  |-> [n \in 1..Len(store.metadata) |-> JsonDumpObject(store.metadata[n])],
            texts     |-> store.texts,
            dimension |-> Dimension])

\* _load: a file that exists cannot be read (read_index or json.load raises)
LoadFails(index_file, meta_file) ==
    index_file.state = "corrupt" \/ meta_file.state = "corrupt"

\* a _load that keeps the index it read when the JSON file cannot be read
LoadStore_KeepsIndex(index_file, meta_file) ==
    [index    |-> IF index_file.state = "ok" THEN index_file.data.vectors ELSE <<>>,
     texts    |-> IF meta_file.state = "ok" THEN meta_file.data.texts ELSE <<>>,
     metadata |-> IF meta_file.state = "ok"
                  THEN [n \in 1..Len(meta_file.data.metadata) |->
                           JsonLoadObject(meta_file.data.metadata[n])]
                  ELSE <<>>,
     d        |-> IF index_file.state = "ok" THEN index_file.data.d ELSE Dimension]

\* _load, run by __init__ on an empty store
LoadStore(index_file, meta_file) ==
    IF LoadFails(index_file, meta_file)
    THEN EmptyStore
    ELSE [index    |-> IF index_file.state = "ok" THEN index_file.data.vectors ELSE <<>>,
          texts    |-> IF meta_file.state = "ok" THEN meta_file.data.texts ELSE <<>>,
          metadata |-> IF meta_file.state = "ok"
                       THEN [n \in 1..Len(meta_file.data.metadata) |->
                                JsonLoadObject(meta_file.data.metadata[n])]
                       ELSE <<>>,
          d        |-> IF index_file.state = "ok" THEN index_file.data.d ELSE Dimension]

\* _load_document_metadata
LoadDocumentMetadata(cache_file) ==
    IF cache_file.state = "ok" THEN cache_file.data ELSE EmptyDict

(***************************************************************************)
(* SEMPKnowledgeBase: ingestion.                                           *)
(***************************************************************************)
DocKeys == {"k1", "k2"}

\* the order in which the bucket lists its keys
DocOrder == <<"k1", "k2">>

\* the text of a document version: k1 is two sentences; k2 is one word in
\* its odd versions and bare punctuation (no sentence) in its even ones
DocText(key, modified) ==
    IF key = "k1" THEN <<"a", ".", "b", " ", "b">>
    ELSE IF modified % 2 = 1 THEN <<"a">> ELSE <<".">>

\* list_documents when the listing succeeds
ListDocuments(bucket) ==
    LET Stored(key) == bucket[key] > 0
        keys == SelectSeq(DocOrder, Stored)
    IN  [n \in 1..Len(keys) |-> [key |-> keys[n], modified |-> bucket[keys[n]]]]

\* the embedding service on a text it answers for
EmbeddingOf(text) == IF Len(SplitWords(text)) = 1 THEN <<1, 0>> ELSE <<3, 4>>

\* an up-to-date check that never finds a document processed
IsDocumentProcessed_Never(cache, doc_key, modified) == FALSE

\* _is_document_processed
IsDocumentProcessed(cache, doc_key, modified) ==
    IF doc_key \notin DOMAIN cache THEN FALSE
    ELSE cache[doc_key].processed_at = modified

\* a loop that applies the up-to-date check even under force_refresh
DocumentsToProcess_IgnoresForce(documents, cache, force_refresh) ==
    LET Stale(doc) == ~IsDocumentProcessed(cache, doc.key, doc.modified)
    IN  SelectSeq(documents, Stale)

\* the loop that builds documents_to_process
DocumentsToProcess(documents, cache, force_refresh) ==
    LET Stale(doc) == force_refresh \/ ~IsDocumentProcessed(cache, doc.key, doc.modified)
    IN  SelectSeq(documents, Stale)

\* what can happen to one document: every step succeeds, the download or
\* the extraction yields nothing, or the embedding of chunk number at fails
ProcessOutcomes(chunks) ==
    {[kind |-> "ok", at |-> 0],
     [kind |-> "download_failed", at |-> 0],
     [kind |-> "extract_failed", at |-> 0]}
    \cup {[kind |-> "embed_failed", at |-> j] : j \in 1..Len(chunks)}

\* the chunks _process_document reaches add_vector with
ChunksAdded(chunks, outcome) ==
    IF outcome.kind = "ok" THEN Len(chunks)
    ELSE IF outcome.kind = "embed_failed" THEN outcome.at - 1
    ELSE 0

\* x in s, for strings
Contains(s, x) ==
    \E i \in 0..(Len(s) - Len(x)) : SubSeq(s, i + 1, i + Len(x)) = x

\* the capital letters of the file names of the model
CaseMap ==
    [S |-> "s", E |-> "e", M |-> "m", P |-> "p", R |-> "r", G |-> "g", D |-> "d",
     B |-> "b", T |-> "t"]

\* str.lower()
Lower(s) == [i \in 1..Len(s) |-> IF s[i] \in DOMAIN CaseMap THEN CaseMap[s[i]] ELSE s[i]]

KwSemp == <<"s", "e", "m", "p">>

KwRequirement == <<"r", "e", "q", "u", "i", "r", "e", "m", "e", "n", "t">>

KwGuide == <<"g", "u", "i", "d", "e">>

KwGuideline == KwGuide \o <<"l", "i", "n", "e">>

KwStandard == <<"s", "t", "a", "n", "d", "a", "r", "d">>

KwDebt == <<"d", "e", "b", "t">>

\* a classifier that compares the file name as it is written
ClassifyDocumentType_CaseSensitive(filename) ==
    IF Contains(filename, KwSemp) THEN "SEMP"
    ELSE IF Contains(filename, KwRequirement) THEN "Requirements"
    ELSE IF Contains(filename, KwGuide) \/ Contains(filename, KwGuideline) THEN "Guide"
    ELSE IF Contains(filename, KwStandard) THEN "Standard"
    ELSE IF Contains(filename, KwDebt) THEN "Debt_Detection"
    ELSE "General"

\* _classify_document_type
ClassifyDocumentType(filename) ==
    LET filename_lower == Lower(filename)
    IN  IF Contains(filename_lower, KwSemp) THEN "SEMP"
        ELSE IF Contains(filename_lower, KwRequirement) THEN "Requirements"
        ELSE IF Contains(filename_lower, KwGuide) \/ Contains(filename_lower, KwGuideline)
             THEN "Guide"
        ELSE IF Contains(filename_lower, KwStandard) THEN "Standard"
        ELSE IF Contains(filename_lower, KwDebt) THEN "Debt_Detection"
        ELSE "General"

\* the file name of a document of the bucket
DocFilename(key) == IF key = "k1" THEN <<"k", "1">> ELSE <<"k", "2">>

\* the metadata _process_document passes to add_vector for a chunk
ChunkMetadata(doc, chunk) ==
    [document_name |-> doc.key,
     document_key  |-> doc.key,
     document_type |-> ClassifyDocumentType(DocFilename(doc.key)),
     modified      |-> doc.modified,
     chunk_index   |-> chunk.chunk_index,
     word_count    |-> chunk.word_count,
     char_count    |-> chunk.char_count]

\* the embedding loop of _process_document over the first n chunks
RECURSIVE AddChunks(_, _, _, _)
AddChunks(store, doc, chunks, n) ==
    IF n = 0 THEN store
    ELSE AddVector(AddChunks(store, doc, chunks, n - 1),
                   EmbeddingOf(chunks[n].text), chunks[n].text,
                   ChunkMetadata(doc, chunks[n]))

\* _process_document: the vector store afterwards
ProcessDocumentStore(store, doc, chunks, outcome) ==
    AddChunks(store, doc, chunks, ChunksAdded(chunks, outcome))

\* a _process_document that records a document only the first time it sees it
ProcessDocumentCache_KeepsOldEntry(cache, doc, chunks, outcome) ==
    IF outcome.kind = "ok" /\ doc.key \notin DOMAIN cache
    THEN [key \in DOMAIN cache \cup {doc.key} |->
            IF key = doc.key
            THEN [processed_at |-> doc.modified, chunk_count |-> Len(chunks)]
            ELSE cache[key]]
    ELSE cache

\* _process_document: document_metadata afterwards
ProcessDocumentCache(cache, doc, chunks, outcome) ==
    IF outcome.kind = "ok"
    THEN [key \in DOMAIN cache \cup {doc.key} |->
            IF key = doc.key
            THEN [processed_at |-> doc.modified, chunk_count |-> Len(chunks)]
            ELSE cache[key]]
    ELSE cache

\* _process_document: the value returned
ProcessDocumentReturn(outcome) == outcome.kind = "ok"

\* a loop that gives up at the first document that fails
AfterDocument_StopOnFailure(success, pos, todo) ==
    IF success /\ pos < Len(todo) THEN "process" ELSE "save_metadata"

\* the loop over documents_to_process: what follows the document at pos
AfterDocument(success, pos, todo) ==
    IF pos < Len(todo) THEN "process" ELSE "save_metadata"

\* an initialize that reports success whatever vector_store.save did
ReturnAfterSave_AlwaysTrue(saved) == "True"

\* the value initialize returns once vector_store.save has returned or raised
ReturnAfterSave(saved) == IF saved THEN "True" ELSE "False"

\* dict.get(key, default)
DictGet(dict, key, default) == IF key \in DOMAIN dict THEN dict[key] ELSE default

\* search_knowledge_base: one result of the store, reshaped
FormatResult(result) ==
    LET chunk_data == result.metadata
    IN  [text          |-> result.text,
         score         |-> result.score,
         document      |-> DictGet(chunk_data, "document_name", "unknown"),
         chunk_index   |-> DictGet(chunk_data, "chunk_index", 0),
         document_type |-> DictGet(chunk_data, "document_type", "unknown"),
         metadata      |-> chunk_data]

\* search_knowledge_base.  embedding: _get_embedding returns the vector
\* ("ok") or re-raises the error of the embedding service ("failed"); the
\* except clause of search_knowledge_base catches that error, and any error
\* of vector_store.search, logs it and returns [].
SearchKnowledgeBase(store, query, top_k, score_threshold, embedding) ==
    IF embedding = "failed" THEN [raised |-> FALSE, results |-> <<>>]
    ELSE LET found == Search(store, EmbeddingOf(query), top_k, score_threshold)
         IN  IF found.raised THEN [raised |-> FALSE, results |-> <<>>]
             ELSE [raised  |-> FALSE,
                   results |-> [n \in 1..Len(found.results) |->
                                   FormatResult(found.results[n])]]

NoCallYet == [result |-> "none"]

KBStoreEmpty ==
    /\ fs_index = FileAbsent
    /\ fs_meta = FileAbsent

KBIdle ==
    /\ fs_cache = FileAbsent
    /\ s3_modified = [key \in DocKeys |-> 0]
    /\ kb_cache = EmptyDict
    /\ kb_pc = "idle"
    /\ kb_todo = <<>>
    /\ kb_pos = 0
    /\ kb_call = NoCallYet
    /\ kb_faults = 0

(***************************************************************************)
(* Specification of the vector index: any sequence of add_vector calls (up *)
(* to MaxVectors entries) and search calls.                                *)
(***************************************************************************)
StoreTexts == {"t1", "t2"}

\* the metadata an add of this text passes (none for "t2")
MetadataOf(text) ==
    IF text = "t1" THEN [document_name |-> "d1", chunk_index |-> 0] ELSE NoMetadata

ScoreThresholds == {-ScoreScale, 0, 15, 16, ScoreScale}

NoCall == [op |-> "none"]

StoreEmpty ==
    /\ vs_index = <<>>
    /\ vs_texts = <<>>
    /\ vs_metadata = <<>>
    /\ vs_dim = Dimension

\* the coordinate tracking of a processor that has extracted nothing yet
TrackingEmpty ==
    /\ dp_line_endings = <<>>
    /\ dp_page_breaks = <<>>

\* no item in the chat history table
NoSession == [state |-> "absent"]

ChatIdle == db_chat = NoSession

SearchIdle ==
    /\ sr_call = NoCall
    /\ sr_result = NoCall

StoreInit ==
    /\ StoreEmpty
    /\ SearchIdle
    /\ TrackingEmpty
    /\ ChatIdle
    /\ ChunkIdle
    /\ KBStoreEmpty
    /\ KBIdle

\* the caller holds no search result it has not yet consumed
CallerReady == sr_call = NoCall

StoreAdd(vector, text) ==
    /\ CallerReady
    /\ Len(vs_index) < MaxVectors
    /\ LET after == AddVector(ThisStore, vector, text, MetadataOf(text))
       IN  /\ vs_index' = after.index
           /\ vs_texts' = after.texts
           /\ vs_metadata' = after.metadata
           /\ vs_dim' = after.d
    /\ UNCHANGED <<sr_vars, ck_vars, fs_vars, kb_vars, dp_vars, db_vars>>

StoreSearch(query_vector, top_k, score_threshold) ==
    /\ CallerReady
    /\ sr_call' = [op |-> "search", query_vector |-> query_vector, top_k |-> top_k,
                   score_threshold |-> score_threshold]
    /\ sr_result' = Search(ThisStore, query_vector, top_k, score_threshold)
    /\ UNCHANGED <<vs_vars, ck_vars, fs_vars, kb_vars, dp_vars, db_vars>>

\* the caller drops the result of its last search and moves on
StoreSearchDone ==
    /\ ~CallerReady
    /\ sr_call' = NoCall
    /\ sr_result' = NoCall
    /\ UNCHANGED <<vs_vars, ck_vars, fs_vars, kb_vars, dp_vars, db_vars>>

StoreNext ==
    \/ \E vector \in InputVectors, text \in StoreTexts : StoreAdd(vector, text)
    \/ StoreSearchDone
    \/ \E query_vector \in InputVectors, top_k \in 1..MaxTopK,
          score_threshold \in ScoreThresholds :
            StoreSearch(query_vector, top_k, score_threshold)

SpecStore == StoreInit /\ [][StoreNext]_vars

(***************************************************************************)
(* Claims about search.                                                    *)
(***************************************************************************)
\* a search has returned (without raising) and its result is still held
SearchReturned == sr_call # NoCall /\ sr_call.op = "search" /\ ~sr_result.raised

\* the score of the stored vector at position i (from 1) against the query
StoredScore(i) == Dot(vs_index[i], Normalize(sr_call.query_vector))

\* positions (from 1) of the stored entries the result holds
ReturnedPositions == {sr_result.results[n].index + 1 : n \in 1..Len(sr_result.results)}

\* C1: every result of search(q, top_k, score_threshold) with top_k >= 1 has
\* score >= score_threshold, and there are at most top_k results.
C1_ThresholdAndCount ==
    (SearchReturned /\ sr_call.top_k >= 1) =>
        /\ Len(sr_result.results) <= sr_call.top_k
        /\ \A n \in 1..Len(sr_result.results) :
               sr_result.results[n].score >= sr_call.score_threshold

\* a search over more than top_k entries that returned a result and dropped
\* a hit below the threshold
C1_Witness ==
    /\ SearchReturned
    /\ Len(vs_index) > sr_call.top_k
    /\ Len(sr_result.results) >= 1
    /\ Len(sr_result.results) < sr_call.top_k

\* C2: the results are in non-increasing score order, no stored entry left
\* out has a score >= score_threshold strictly above a returned score, and
\* when fewer than top_k results come back every stored entry with score >=
\* score_threshold is among them.
C2_NearestAboveThreshold ==
    SearchReturned =>
        LET results == sr_result.results
        IN  /\ \A n \in 1..(Len(results) - 1) : results[n].score >= results[n + 1].score
            /\ \A n \in 1..Len(results) :
                   results[n].score = StoredScore(results[n].index + 1)
            /\ \A i \in (1..Len(vs_index)) \ ReturnedPositions :
                   StoredScore(i) >= sr_call.score_threshold =>
                       \A n \in 1..Len(results) : StoredScore(i) <= results[n].score
            /\ Len(results) < sr_call.top_k =>
                   \A i \in 1..Len(vs_index) :
                       StoredScore(i) >= sr_call.score_threshold => i \in ReturnedPositions

\* a search that returned two results of different scores and left out a
\* stored entry that is above the threshold
C2_Witness ==
    /\ SearchReturned
    /\ Len(sr_result.results) = 2
    /\ sr_result.results[1].score > sr_result.results[2].score
    /\ \E i \in (1..Len(vs_index)) \ ReturnedPositions :
           StoredScore(i) >= sr_call.score_threshold

(***************************************************************************)
(* Specification of the chunker: chunk_text applied to every text over     *)
(* Chars of at most MaxTextLen characters, for every chunk_size in         *)
(* 1..MaxChunkSize and every chunk_overlap below it.                       *)
(***************************************************************************)
TextsUpTo(n) == UNION {[1..k -> Chars] : k \in 0..n}

ChunkInit ==
    /\ ck_pc = "ready"
    /\ ck_text \in TextsUpTo(MaxTextLen)
    /\ ck_size \in 1..MaxChunkSize
    /\ ck_overlap \in 0..(ck_size - 1)
    /\ ck_chunks = <<>>
    /\ StoreEmpty
    /\ SearchIdle
    /\ TrackingEmpty
    /\ ChatIdle
    /\ KBStoreEmpty
    /\ KBIdle

ChunkTextCall ==
    /\ ck_pc = "ready"
    /\ ck_chunks' = ChunkText(ck_text, ck_size, ck_overlap)
    /\ ck_pc' = "done"
    /\ UNCHANGED <<ck_text, ck_size, ck_overlap>>
    /\ UNCHANGED <<vs_vars, sr_vars, fs_vars, kb_vars, dp_vars, db_vars>>

ChunkNext == ChunkTextCall

SpecChunk == ChunkInit /\ [][ChunkNext]_vars

(***************************************************************************)
(* Claims about the chunker.                                               *)
(***************************************************************************)
WordCount(s) == Len(SplitWords(s))

\* s occurs in t as a contiguous run of characters
IsInfix(s, t) ==
    \E i \in 0..(Len(t) - Len(s)) : SubSeq(t, i + 1, i + Len(s)) = s

\* the chunk holds a sentence of the text that alone has more than ck_size words
HoldsOversizedSentence(chunk) ==
    LET sentences == SplitIntoSentences(ck_text)
    IN  \E j \in 1..Len(sentences) :
            /\ WordCount(sentences[j]) > ck_size
            /\ IsInfix(sentences[j], chunk.text)

\* C3: every chunk chunk_text returns has word_count <= chunk_size, except a
\* chunk that holds a sentence whose own word count exceeds chunk_size.
C3_ChunkWithinSize ==
    ck_pc = "done" =>
        \A i \in 1..Len(ck_chunks) :
            \/ ck_chunks[i].word_count <= ck_size
            \/ HoldsOversizedSentence(ck_chunks[i])

\* C4: for consecutive chunks c[i], c[i+1] where c[i] has at least
\* chunk_overlap words, c[i+1] starts with exactly the last chunk_overlap words
\* of c[i] and continues immediately with the sentence that triggered the
\* rollover (chunk_overlap = 0 included).
C4_ExactOverlap ==
    ck_pc = "done" =>
        \A i \in 1..(Len(ck_chunks) - 1) :
            LET prev == SplitWords(ck_chunks[i].text)
                next == SplitWords(ck_chunks[i + 1].text)
                trigger == SplitWords(ck_chunks[i + 1].opened_by)
            IN  Len(prev) >= ck_overlap =>
                    /\ Len(next) >= ck_overlap + Len(trigger)
                    /\ SubSeq(next, 1, ck_overlap) = LastWords(prev, ck_overlap)
                    /\ SubSeq(next, ck_overlap + 1, ck_overlap + Len(trigger)) = trigger

\* chunk_text has returned
ChunkDone == ck_pc = "done"

\* C18: the i-th chunk (from 0) has chunk_index i; its word_count is the
\* number of whitespace-separated words of its own text and its char_count
\* is the length of its own text.
C18_ChunkFieldsFromOwnText ==
    ChunkDone =>
        \A i \in 1..Len(ck_chunks) :
            /\ ck_chunks[i].chunk_index = i - 1
            /\ ck_chunks[i].word_count = WordCount(ck_chunks[i].text)
            /\ ck_chunks[i].char_count = Len(ck_chunks[i].text)

\* two chunks were returned and one of them holds a run of two spaces
C18_Witness ==
    /\ ChunkDone
    /\ Len(ck_chunks) >= 2
    /\ ck_overlap >= 1
    /\ \E i \in 1..Len(ck_chunks) : IsInfix(<<" ", " ">>, ck_chunks[i].text)

\* the non-empty sentences of the text, in order
Sentences == SplitIntoSentences(ck_text)

\* the ways to cut n sentences into m consecutive non-empty groups, each way
\* given by the position of the last sentence of every group
Cuts(n, m) ==
    {cut \in [1..m -> 1..n] :
        /\ cut[m] = n
        /\ \A j \in 1..(m - 1) : cut[j] < cut[j + 1]}

\* the sentences of group j of a cut, joined by single spaces
GroupText(cut, j) ==
    JoinWords(SubSeq(Sentences, IF j = 1 THEN 1 ELSE cut[j - 1] + 1, cut[j]))

\* the texts made of trailing words of a chunk: what a chunk can carry over
TrailingWords(text) ==
    LET words == SplitWords(text)
    IN  {JoinWords(LastWords(words, m)) : m \in 0..Len(words)}

HasSentence(text) ==
    \E i \in 1..Len(text) : ~IsSpace(text[i]) /\ ~IsPunct(text[i])

\* C20: chunk_text returns no chunk for a text that is empty, whitespace
\* only or without a non-empty sentence, and at least one chunk for a text
\* that holds a non-empty sentence.
C20_ChunksIffSentence ==
    ChunkDone => (ck_chunks # <<>> <=> HasSentence(ck_text))

\* a text of whitespace and punctuation, not empty after strip(), gave no chunk
C20_Witness ==
    /\ ChunkDone
    /\ Strip(ck_text) # <<>>
    /\ ~HasSentence(ck_text)
    /\ IsInfix(<<" ">>, ck_text)
    /\ ck_chunks = <<>>

(***************************************************************************)
(* Specification of the knowledge base: documents appear in the bucket and *)
(* are modified, initialize_knowledge_base runs (listing, the loop over    *)
(* documents_to_process, _save_document_metadata, vector_store.save: the   *)
(* index file, then the JSON file), and the process may die at any point   *)
(* and be started again from the persisted files.                          *)
(***************************************************************************)
\* the chunks of the document version doc, as the processor is configured
DocChunks(doc) == ChunkText(DocText(doc.key, doc.modified), ck_size, ck_overlap)

\* the most the loop over these documents can add to the index
RECURSIVE ChunkTotal(_)
ChunkTotal(documents) ==
    IF documents = <<>> THEN 0
    ELSE Len(DocChunks(Head(documents))) + ChunkTotal(Tail(documents))

Init ==
    /\ ck_pc = "off"
    /\ ck_text = <<>>
    /\ ck_size = 2
    /\ ck_overlap = 1
    /\ ck_chunks = <<>>
    /\ StoreEmpty
    /\ SearchIdle
    /\ TrackingEmpty
    /\ ChatIdle
    /\ KBStoreEmpty
    /\ KBIdle

\* a step that injects a failure (a collaborator fails, the process dies)
\* spends one of the MaxFaults failures a behaviour may hold
Fault(injected) ==
    IF injected
    THEN kb_faults < MaxFaults /\ kb_faults' = kb_faults + 1
    ELSE UNCHANGED kb_faults

\* an object is put into the bucket, or an object of the bucket is modified
PutDocument(key) ==
    /\ kb_pc = "idle"
    /\ kb_call = NoCallYet
    /\ s3_modified[key] < MaxModified
    /\ s3_modified' = [s3_modified EXCEPT ![key] = @ + 1]
    /\ UNCHANGED <<kb_cache, kb_pc, kb_todo, kb_pos, kb_call, kb_faults>>
    /\ UNCHANGED <<ck_vars, vs_vars, sr_vars, fs_vars, dp_vars, db_vars>>

\* the history of a call as it starts
CallStarted(force_refresh, listing, documents) ==
    [force_refresh |-> force_refresh,
     listing       |-> listing,
     documents     |-> documents,
     start_store   |-> ThisStore,
     start_cache   |-> kb_cache,
     start_files   |-> <<fs_index, fs_meta, fs_cache>>,
     attempts      |-> [key \in DocKeys |-> 0],
     outcomes      |-> [key \in DocKeys |-> "none"],
     downloads     |-> 0,
     extractions   |-> 0,
     embeddings    |-> 0,
     metadata_save |-> "none",
     store_save    |-> "none",
     result        |-> "running"]

\* initialize_knowledge_base up to the loop over documents_to_process.
\* listing: list_documents returns the objects ("ok"), catches a ClientError
\* and returns [] ("client_error"), or raises another error ("raised").
Initialize(force_refresh, listing) ==
    /\ kb_pc = "idle"
    /\ kb_call = NoCallYet
    /\ Len(vs_index)
         + ChunkTotal(DocumentsToProcess(ListDocuments(s3_modified), kb_cache, force_refresh))
            <= MaxIndexed
    /\ Fault(listing # "ok")
    /\ LET documents == IF listing = "ok" THEN ListDocuments(s3_modified) ELSE <<>>
           todo == DocumentsToProcess(documents, kb_cache, force_refresh)
           call == CallStarted(force_refresh, listing, documents)
       IN  IF listing = "raised" \/ documents = <<>>
           THEN /\ kb_call' = [call EXCEPT !.result = "False"]
                /\ UNCHANGED <<kb_pc, kb_todo, kb_pos>>
           ELSE IF todo = <<>>
           THEN /\ kb_call' = [call EXCEPT !.result = "True"]
                /\ UNCHANGED <<kb_pc, kb_todo, kb_pos>>
           ELSE /\ kb_call' = call
                /\ kb_pc' = "process"
                /\ kb_todo' = todo
                /\ kb_pos' = 1
    /\ UNCHANGED <<s3_modified, kb_cache>>
    /\ UNCHANGED <<ck_vars, vs_vars, sr_vars, fs_vars, dp_vars, db_vars>>

\* one turn of the loop: _process_document on documents_to_process[kb_pos]
ProcessDocument(outcome) ==
    /\ kb_pc = "process"
    /\ LET doc == kb_todo[kb_pos]
           chunks == DocChunks(doc)
           after == ProcessDocumentStore(ThisStore, doc, chunks, outcome)
           success == ProcessDocumentReturn(outcome)
       IN  /\ outcome \in ProcessOutcomes(chunks)
           /\ Fault(outcome.kind # "ok")
           /\ vs_index' = after.index
           /\ vs_texts' = after.texts
           /\ vs_metadata' = after.metadata
           /\ vs_dim' = after.d
           /\ kb_cache' = ProcessDocumentCache(kb_cache, doc, chunks, outcome)
           /\ kb_pc' = AfterDocument(success, kb_pos, kb_todo)
           /\ kb_pos' = kb_pos + 1
           /\ kb_call' = [kb_call EXCEPT
                  !.attempts[doc.key] = @ + 1,
                  !.outcomes[doc.key] = outcome.kind,
                  !.downloads = @ + 1,
                  !.extractions = @ + (IF outcome.kind = "download_failed" THEN 0 ELSE 1),
                  !.embeddings = @ + (IF outcome.kind = "embed_failed" THEN outcome.at
                                      ELSE ChunksAdded(chunks, outcome))]
    /\ UNCHANGED <<s3_modified, kb_todo>>
    /\ UNCHANGED <<ck_vars, sr_vars, fs_vars, dp_vars, db_vars>>

\* _save_document_metadata: the write succeeds, or fails and is only logged
SaveDocumentMetadata(written) ==
    /\ kb_pc = "save_metadata"
    /\ Fault(~written)
    /\ fs_cache' = IF written THEN FileOf(kb_cache) ELSE fs_cache
    /\ kb_call' = [kb_call EXCEPT !.metadata_save = IF written THEN "ok" ELSE "failed"]
    /\ kb_pc' = "save_index"
    /\ UNCHANGED <<fs_index, fs_meta, s3_modified, kb_cache, kb_todo, kb_pos>>
    /\ UNCHANGED <<ck_vars, vs_vars, sr_vars, dp_vars, db_vars>>

\* vector_store.save, first half: faiss.write_index succeeds or raises
SaveStoreIndex(written) ==
    /\ kb_pc = "save_index"
    /\ Fault(~written)
    /\ IF written
       THEN /\ fs_index' = WriteIndexFile(ThisStore)
            /\ kb_pc' = "save_json"
            /\ UNCHANGED <<kb_call, kb_todo, kb_pos>>
       ELSE /\ kb_call' = [kb_call EXCEPT !.store_save = "failed",
                                          !.result = ReturnAfterSave(FALSE)]
            /\ kb_pc' = "idle"
            /\ kb_todo' = <<>>
            /\ kb_pos' = 0
            /\ UNCHANGED fs_index
    /\ UNCHANGED <<fs_meta, fs_cache, s3_modified, kb_cache>>
    /\ UNCHANGED <<ck_vars, vs_vars, sr_vars, dp_vars, db_vars>>

\* vector_store.save, second half: the JSON file is written ("ok") or the
\* write raises before it replaces the file ("failed")
SaveStoreJson(outcome) ==
    /\ kb_pc = "save_json"
    /\ Fault(outcome # "ok")
    /\ fs_meta' = IF outcome = "ok" THEN WriteMetaFile(ThisStore) ELSE fs_meta
    /\ kb_call' = [kb_call EXCEPT !.store_save = IF outcome = "ok" THEN "ok" ELSE "failed",
                                  !.result = ReturnAfterSave(outcome = "ok")]
    /\ kb_pc' = "idle"
    /\ kb_todo' = <<>>
    /\ kb_pos' = 0
    /\ UNCHANGED <<fs_index, fs_cache, s3_modified, kb_cache>>
    /\ UNCHANGED <<ck_vars, vs_vars, sr_vars, dp_vars, db_vars>>

\* the caller takes the value initialize_knowledge_base returned
Return ==
    /\ kb_pc = "idle"
    /\ kb_call # NoCallYet
    /\ kb_call' = NoCallYet
    /\ UNCHANGED <<s3_modified, kb_cache, kb_pc, kb_todo, kb_pos, kb_faults>>
    /\ UNCHANGED <<ck_vars, vs_vars, sr_vars, fs_vars, dp_vars, db_vars>>

\* the process dies (at any point) and a new SEMPKnowledgeBase is built:
\* SimpleVectorStore.__init__ with _load, then _load_document_metadata
Restart ==
    /\ Fault(TRUE)
    /\ LET loaded == LoadStore(fs_index, fs_meta)
       IN  /\ vs_index' = loaded.index
           /\ vs_texts' = loaded.texts
           /\ vs_metadata' = loaded.metadata
           /\ vs_dim' = loaded.d
    /\ kb_cache' = LoadDocumentMetadata(fs_cache)
    /\ kb_pc' = "idle"
    /\ kb_todo' = <<>>
    /\ kb_pos' = 0
    /\ kb_call' = NoCallYet
    /\ UNCHANGED <<s3_modified>>
    /\ UNCHANGED <<ck_vars, sr_vars, fs_vars, dp_vars, db_vars>>

Next ==
    \/ \E key \in DocKeys : PutDocument(key)
    \/ \E force_refresh \in BOOLEAN, listing \in {"ok", "client_error", "raised"} :
          Initialize(force_refresh, listing)
    \/ \E kind \in {"ok", "download_failed", "extract_failed", "embed_failed"},
          at \in 0..MaxIndexed :
          ProcessDocument([kind |-> kind, at |-> at])
    \/ \E written \in BOOLEAN : SaveDocumentMetadata(written)
    \/ \E written \in BOOLEAN : SaveStoreIndex(written)
    \/ \E outcome \in {"ok", "failed"} : SaveStoreJson(outcome)
    \/ Return
    \/ Restart

Spec == Init /\ [][Next]_vars

(***************************************************************************)
(* Claims about ingestion.  kb_call is the history of the running or last  *)
(* call: its inputs, the state it started from, what was attempted and how *)
(* each collaborator answered.                                             *)
(***************************************************************************)
CallStartedNow == kb_call # NoCallYet

CallEnded == kb_call # NoCallYet /\ kb_call.result \in {"True", "False"}

IsPrefix(s, t) == Len(s) <= Len(t) /\ SubSeq(t, 1, Len(s)) = s

\* the documents the call listed, as a set
Listed == {kb_call.documents[n] : n \in 1..Len(kb_call.documents)}

\* when the call started the cache recorded doc as processed at its timestamp
UpToDateAtStart(doc) ==
    /\ doc.key \in DOMAIN kb_call.start_cache
    /\ kb_call.start_cache[doc.key].processed_at = doc.modified

\* when the call started the cache recorded doc at another timestamp
StaleAtStart(doc) ==
    /\ doc.key \in DOMAIN kb_call.start_cache
    /\ kb_call.start_cache[doc.key].processed_at # doc.modified

\* the store still begins with everything it held when the call started
StartEntriesKept ==
    /\ IsPrefix(kb_call.start_store.index, vs_index)
    /\ IsPrefix(kb_call.start_store.texts, vs_texts)
    /\ IsPrefix(kb_call.start_store.metadata, vs_metadata)

\* the metadata entries the call has appended for this document version
AddedFor(doc) ==
    LET added == SubSeq(vs_metadata, Len(kb_call.start_store.metadata) + 1, Len(vs_metadata))
        OfDoc(m) == m.document_key = doc.key /\ m.modified = doc.modified
    IN  SelectSeq(added, OfDoc)

\* the texts the call has appended
AddedTexts == SubSeq(vs_texts, Len(kb_call.start_store.texts) + 1, Len(vs_texts))

\* the call appended every chunk of doc, once and in chunk order
AllChunksAdded(doc) ==
    LET chunks == DocChunks(doc)
    IN  /\ AddedFor(doc) = [n \in 1..Len(chunks) |-> ChunkMetadata(doc, chunks[n])]
        /\ \A n \in 1..Len(chunks) :
               \E i \in 1..Len(AddedTexts) : AddedTexts[i] = chunks[n].text
        /\ Len(vs_index) >= Len(kb_call.start_store.index) + Len(chunks)

\* the cache records doc as processed at its timestamp, with its chunk count
CacheRecords(cache, doc) ==
    /\ doc.key \in DOMAIN cache
    /\ cache[doc.key] = [processed_at |-> doc.modified,
                         chunk_count  |-> Len(DocChunks(doc))]

\* C5: once every listed document is ingested, a further
\* initialize(force_refresh=false) with no timestamp changed makes no
\* download, extraction or embedding call, returns true and leaves the index,
\* the document cache and the persisted files as they were.
C5_UpToDateIsNoOp ==
    ( /\ CallStartedNow
      /\ ~kb_call.force_refresh
      /\ kb_call.listing = "ok"
      /\ kb_call.documents # <<>>
      /\ \A doc \in Listed : UpToDateAtStart(doc) ) =>
        /\ kb_call.result = "True"
        /\ kb_call.downloads = 0
        /\ kb_call.extractions = 0
        /\ kb_call.embeddings = 0
        /\ ThisStore = kb_call.start_store
        /\ kb_cache = kb_call.start_cache
        /\ <<fs_index, fs_meta, fs_cache>> = kb_call.start_files

\* such a call over two ingested documents and a non-empty index has returned
C5_Witness ==
    /\ CallEnded
    /\ ~kb_call.force_refresh
    /\ kb_call.listing = "ok"
    /\ Len(kb_call.documents) = 2
    /\ \A doc \in Listed : UpToDateAtStart(doc)
    /\ Len(vs_index) >= 2
    /\ Len(vs_texts) = Len(vs_index)
    /\ fs_index.state = "ok"
    /\ fs_meta.state = "ok"
    /\ kb_faults = 0

C7_FailureDoesNotBlock ==
    (CallEnded /\ kb_call.listing = "ok") =>
        \A doc \in Listed :
            (kb_call.force_refresh \/ ~UpToDateAtStart(doc)) =>
                /\ kb_call.attempts[doc.key] = 1
                /\ kb_call.outcomes[doc.key] = "ok" =>
                       /\ AllChunksAdded(doc)
                       /\ CacheRecords(kb_cache, doc)

\* k1 failed (after one of its chunks was added) and k2, next in the loop,
\* was processed with success into one chunk
C7_Witness ==
    /\ CallEnded
    /\ kb_call.outcomes["k1"] = "embed_failed"
    /\ kb_call.outcomes["k2"] = "ok"
    /\ \E doc \in Listed : doc.key = "k2" /\ Len(AddedFor(doc)) = 1
    /\ Len(vs_index) = Len(kb_call.start_store.index) + 2
    /\ kb_call.result = "True"

\* the listing gave no document (an empty bucket, a ClientError or an error
\* that list_documents lets through)
NoDocumentListed == kb_call.listing # "ok" \/ kb_call.documents = <<>>

\* C8 as stated: initialize returns false if the store lists no document and
\* true in every other case.
C8_FalseOnlyWhenNothingListed ==
    CallEnded => (kb_call.result = "False" <=> NoDocumentListed)

\* C8 as amended: initialize returns false if the store lists no document or
\* if vector_store.save raises, and true in every other case, also when
\* documents failed or only the document cache could not be written.
C8_FalseWhenNothingListedOrSaveFails ==
    CallEnded =>
        (kb_call.result = "False" <=> (NoDocumentListed \/ kb_call.store_save = "failed"))

\* a call in which a document failed has returned true
C8_Witness ==
    /\ CallEnded
    /\ kb_call.result = "True"
    /\ \E key \in DocKeys : kb_call.outcomes[key] \notin {"none", "ok"}
    /\ kb_call.store_save = "ok"

\* C9: initialize never reports success when the write of the document cache
\* or the write of the index failed.
C9_SaveFailureNotSuccess ==
    (CallEnded /\ kb_call.result = "True") =>
        /\ kb_call.metadata_save # "failed"
        /\ kb_call.store_save # "failed"

\* the index holds every chunk the cache entry counts for this document version
IndexHoldsChunks(key, entry) ==
    \A j \in 0..(entry.chunk_count - 1) :
        \E i \in 1..Len(vs_metadata) :
            /\ i <= Len(vs_index)
            /\ vs_metadata[i].document_key = key
            /\ vs_metadata[i].modified = entry.processed_at
            /\ vs_metadata[i].chunk_index = j

\* C10: after a restart from the persisted files, initialize(force_refresh=
\* false) on unchanged documents leaves every document that the persisted
\* cache records as processed with its chunks in the index.
C10_IndexRebuiltAfterCrash ==
    ( /\ CallEnded
      /\ ~kb_call.force_refresh
      /\ kb_call.listing = "ok"
      /\ kb_call.result = "True"
      /\ fs_cache.state = "ok" ) =>
        \A doc \in Listed :
            ( /\ doc.key \in DOMAIN fs_cache.data
              /\ fs_cache.data[doc.key].processed_at = doc.modified ) =>
                IndexHoldsChunks(doc.key, fs_cache.data[doc.key])

\* C17: initialize(force_refresh=true) processes every document the bucket
\* lists in that call, also a document whose cached processed timestamp is
\* its current modified timestamp.
C17_ForceRefreshProcessesAll ==
    (CallEnded /\ kb_call.force_refresh /\ kb_call.listing = "ok") =>
        \A doc \in Listed : kb_call.attempts[doc.key] = 1

\* a forced call has processed, with success, a document that was up to date
C17_Witness ==
    /\ CallEnded
    /\ kb_call.force_refresh
    /\ kb_call.result = "True"
    /\ \E doc \in Listed :
           /\ UpToDateAtStart(doc)
           /\ kb_call.attempts[doc.key] = 1
           /\ kb_call.outcomes[doc.key] = "ok"
           /\ Len(AddedFor(doc)) >= 1

\* initialize_knowledge_base(force_refresh=False) time after time in one
\* process whose saves succeed: the failures are those of the listing, the
\* downloads, the extractions and the embeddings
RetryNext ==
    \/ \E key \in DocKeys : PutDocument(key)
    \/ \E listing \in {"ok", "client_error", "raised"} : Initialize(FALSE, listing)
    \/ \E kind \in {"ok", "download_failed", "extract_failed", "embed_failed"},
          at \in 0..MaxIndexed :
          ProcessDocument([kind |-> kind, at |-> at])
    \/ SaveDocumentMetadata(TRUE)
    \/ SaveStoreIndex(TRUE)
    \/ SaveStoreJson("ok")
    \/ Return

SpecRetry == Init /\ [][RetryNext]_vars

\* C27: after initialize_knowledge_base(force_refresh=False) calls, whatever
\* downloads, extractions and embeddings fail, the index holds at most one
\* entry per (document_key, modified, chunk_index): a failed
\* _process_document leaves no chunk behind that a retry adds again.
C27_NoDuplicateChunks ==
    \A m, n \in 1..Len(vs_metadata) :
        (/\ vs_metadata[m].document_key = vs_metadata[n].document_key
         /\ vs_metadata[m].modified = vs_metadata[n].modified
         /\ vs_metadata[m].chunk_index = vs_metadata[n].chunk_index) => m = n

(***************************************************************************)
(* Specification of querying: a knowledge base that has ingested what the  *)
(* bucket lists (and saved it) answers search_knowledge_base calls, with   *)
(* the embedding service answering or failing.                             *)
(***************************************************************************)
QueryTexts == {<<"a">>, <<"a", " ", "b">>}

OkOutcome == [kind |-> "ok", at |-> 0]

\* the store after the loop of initialize processed these documents with success
RECURSIVE IngestStore(_, _)
IngestStore(store, documents) ==
    IF documents = <<>> THEN store
    ELSE LET doc == Head(documents)
         IN  IngestStore(ProcessDocumentStore(store, doc, DocChunks(doc), OkOutcome),
                         Tail(documents))

\* document_metadata after that loop
RECURSIVE IngestCache(_, _)
IngestCache(cache, documents) ==
    IF documents = <<>> THEN cache
    ELSE LET doc == Head(documents)
         IN  IngestCache(ProcessDocumentCache(cache, doc, DocChunks(doc), OkOutcome),
                         Tail(documents))

QueryInit ==
    /\ ck_pc = "off"
    /\ ck_text = <<>>
    /\ ck_size = 2
    /\ ck_overlap = 1
    /\ ck_chunks = <<>>
    /\ SearchIdle
    /\ TrackingEmpty
    /\ ChatIdle
    /\ s3_modified \in [DocKeys -> 0..MaxModified]
    /\ LET documents == ListDocuments(s3_modified)
           store == IngestStore(EmptyStore, documents)
           cache == IngestCache(EmptyDict, documents)
       IN  /\ vs_index = store.index
           /\ vs_texts = store.texts
           /\ vs_metadata = store.metadata
           /\ vs_dim = store.d
           /\ kb_cache = cache
           /\ fs_index = IF documents = <<>> THEN FileAbsent ELSE WriteIndexFile(store)
           /\ fs_meta = IF documents = <<>> THEN FileAbsent ELSE WriteMetaFile(store)
           /\ fs_cache = IF documents = <<>> THEN FileAbsent ELSE FileOf(cache)
    /\ kb_pc = "idle"
    /\ kb_todo = <<>>
    /\ kb_pos = 0
    /\ kb_call = NoCallYet
    /\ kb_faults = 0

QuerySearch(query, top_k, score_threshold, embedding) ==
    /\ CallerReady
    /\ sr_call' = [op |-> "search_knowledge_base", query |-> query, top_k |-> top_k,
                   score_threshold |-> score_threshold, embedding |-> embedding]
    /\ sr_result' = SearchKnowledgeBase(ThisStore, query, top_k, score_threshold, embedding)
    /\ UNCHANGED <<vs_vars, ck_vars, fs_vars, kb_vars, dp_vars, db_vars>>

\* get_all_vectors: one entry per stored text; an IndexError when the
\* metadata list is the shorter one
GetAllVectorsRaises(store) == Len(store.metadata) < Len(store.texts)

GetAllVectors(store) ==
    [i \in 1..Len(store.texts) |->
        [text |-> store.texts[i], metadata |-> store.metadata[i], index |-> i - 1]]

\* get_all_chunks: the entries of the store reshaped; [] on any error
GetAllChunks(store) ==
    IF GetAllVectorsRaises(store) THEN <<>>
    ELSE LET all_vectors == GetAllVectors(store)
         IN  [n \in 1..Len(all_vectors) |->
                LET chunk_metadata == all_vectors[n].metadata
                IN  [text        |-> all_vectors[n].text,
                     document    |-> DictGet(chunk_metadata, "document_name", "unknown"),
                     chunk_index |-> DictGet(chunk_metadata, "chunk_index", 0),
                     metadata    |-> chunk_metadata]]

QueryGetAllChunks ==
    /\ CallerReady
    /\ sr_call' = [op |-> "get_all_chunks"]
    /\ sr_result' = [raised |-> FALSE, results |-> GetAllChunks(ThisStore)]
    /\ UNCHANGED <<vs_vars, ck_vars, fs_vars, kb_vars, dp_vars, db_vars>>

QueryNext ==
    \/ \E query \in QueryTexts, top_k \in 1..MaxTopK,
          score_threshold \in ScoreThresholds, embedding \in {"ok", "failed"} :
            QuerySearch(query, top_k, score_threshold, embedding)
    \/ QueryGetAllChunks
    \/ StoreSearchDone

SpecQuery == QueryInit /\ [][QueryNext]_vars

(***************************************************************************)
(* Claims about querying.                                                  *)
(***************************************************************************)
\* a search_knowledge_base call has ended and its outcome is still held
KBSearchEnded == sr_call # NoCall /\ sr_call.op = "search_knowledge_base"

\* C11: when embedding the query fails, search_knowledge_base lets the
\* failure escape to its caller (an exception is raised), so that the caller
\* can tell it from a search that found nothing above the threshold.
C11_EmbeddingFailureEscapes ==
    (KBSearchEnded /\ sr_call.embedding = "failed") => sr_result.raised

\* get_all_chunks has returned and its result is still held
GetAllReturned == sr_call.op = "get_all_chunks"

\* the fields of a result of search_knowledge_base
SearchResultFields == DOMAIN FormatResult([text |-> "", score |-> 0, metadata |-> EmptyDict])

\* C23: get_all_chunks returns one result per entry stored in the index, in
\* insertion order, each with the fields of a search_knowledge_base result
\* (text, score, document, chunk_index, document_type, metadata).
C23_AllChunksInSearchSchema ==
    GetAllReturned =>
        LET results == sr_result.results
        IN  /\ Len(results) = Len(vs_index)
            /\ \A n \in 1..Len(results) :
                   /\ results[n].text = vs_texts[n]
                   /\ results[n].metadata = vs_metadata[n]
                   /\ DOMAIN results[n] = SearchResultFields

(***************************************************************************)
(* Specification of the life of a SimpleVectorStore: built from the files  *)
(* found on disk, it takes add_vector, search and save calls (a save may   *)
(* fail part-way); the process may end and a new store be built from the   *)
(* files; a file may become unreadable, and the files may come from a run  *)
(* configured with another dimension.                                      *)
(***************************************************************************)
LifeVectors == {<<1, 0>>, <<3, 4>>}

\* vectors whose length is not the configured dimension
OtherVectors == {<<2>>, <<1, 0, 0>>}

LifeThresholds == {0, 16}

\* the files a run configured with dimension Len(vector) left behind
ForeignIndexFile(vector) ==
    FileOf([d |-> Len(vector), vectors |-> <<Normalize(vector)>>])

ForeignMetaFile(vector) ==
    FileOf([metadata |-> <<JsonDumpObject(EmptyDict)>>, texts |-> <<"t1">>,
            dimension |-> Len(vector)])

LifeInit ==
    /\ StoreEmpty
    /\ SearchIdle
    /\ TrackingEmpty
    /\ ChatIdle
    /\ ChunkIdle
    /\ KBStoreEmpty
    /\ KBIdle

\* add_vector
LifeAdd(vector, text) ==
    /\ CallerReady
    /\ Len(vs_index) < MaxSaved
    /\ Len(vs_texts) < MaxSaved
    /\ LET after == AddVector(ThisStore, vector, text, MetadataOf(text))
       IN  /\ vs_index' = after.index
           /\ vs_texts' = after.texts
           /\ vs_metadata' = after.metadata
           /\ vs_dim' = after.d
    /\ sr_call' = [op |-> "add_vector", vector |-> vector, text |-> text,
                   metadata |-> MetadataOf(text), before |-> ThisStore]
    /\ sr_result' = [raised |-> AddVectorRaises(ThisStore, vector),
                     id |-> AddVectorId(ThisStore)]
    /\ UNCHANGED <<ck_vars, fs_vars, kb_vars, dp_vars, db_vars>>

\* save.  outcome: both files are written ("ok"); write_index raises
\* ("index_failed"); the index file is written and then opening the JSON
\* file raises ("json_failed") or json.dump raises on the opened, truncated
\* file ("json_torn").  save re-raises what it caught.
LifeSave(outcome) ==
    /\ CallerReady
    /\ Fault(outcome # "ok")
    /\ fs_index' = IF outcome = "index_failed" THEN fs_index ELSE WriteIndexFile(ThisStore)
    /\ fs_meta' = IF outcome = "ok" THEN WriteMetaFile(ThisStore)
                  ELSE IF outcome = "json_torn" THEN FileCorrupt
                  ELSE fs_meta
    /\ sr_call' = [op |-> "save", before |-> ThisStore]
    /\ sr_result' = [raised |-> outcome # "ok"]
    /\ UNCHANGED <<fs_cache, s3_modified, kb_cache, kb_pc, kb_todo, kb_pos, kb_call>>
    /\ UNCHANGED <<vs_vars, ck_vars, dp_vars, db_vars>>

\* the process ends and SimpleVectorStore.__init__ builds a new store from
\* the files (_load catches every error, so __init__ does not raise);
\* after_save: the last call of the old store was a save that returned
LifeLoad ==
    /\ sr_call.op \in {"none", "save"}
    /\ LET loaded == LoadStore(fs_index, fs_meta)
       IN  /\ vs_index' = loaded.index
           /\ vs_texts' = loaded.texts
           /\ vs_metadata' = loaded.metadata
           /\ vs_dim' = loaded.d
    /\ sr_call' = [op |-> "load", before |-> ThisStore,
                   after_save |-> IF CallerReady THEN FALSE ELSE ~sr_result.raised]
    /\ sr_result' = [raised |-> FALSE]
    /\ UNCHANGED <<ck_vars, fs_vars, kb_vars, dp_vars, db_vars>>

\* a file of the store becomes unreadable
LifeDamage(file) ==
    /\ CallerReady
    /\ Fault(TRUE)
    /\ IF file = "index"
       THEN fs_index.state = "ok" /\ fs_index' = FileCorrupt /\ UNCHANGED fs_meta
       ELSE fs_meta.state = "ok" /\ fs_meta' = FileCorrupt /\ UNCHANGED fs_index
    /\ UNCHANGED <<fs_cache, s3_modified, kb_cache, kb_pc, kb_todo, kb_pos, kb_call>>
    /\ UNCHANGED <<vs_vars, sr_vars, ck_vars, dp_vars, db_vars>>

\* the directory holds the files of a run configured with another dimension
LifeForeignFiles(vector) ==
    /\ CallerReady
    /\ Fault(TRUE)
    /\ fs_index' = ForeignIndexFile(vector)
    /\ fs_meta' = ForeignMetaFile(vector)
    /\ UNCHANGED <<fs_cache, s3_modified, kb_cache, kb_pc, kb_todo, kb_pos, kb_call>>
    /\ UNCHANGED <<vs_vars, sr_vars, ck_vars, dp_vars, db_vars>>

LifeNext ==
    \/ \E vector \in LifeVectors \cup OtherVectors, text \in StoreTexts :
          LifeAdd(vector, text)
    \/ \E query_vector \in LifeVectors \cup OtherVectors, top_k \in 1..MaxTopK,
          score_threshold \in LifeThresholds :
            StoreSearch(query_vector, top_k, score_threshold)
    \/ \E outcome \in {"ok", "index_failed", "json_failed", "json_torn"} : LifeSave(outcome)
    \/ LifeLoad
    \/ \E file \in {"index", "json"} : LifeDamage(file)
    \/ \E vector \in OtherVectors : LifeForeignFiles(vector)
    \/ StoreSearchDone

SpecLife == LifeInit /\ [][LifeNext]_vars

(***************************************************************************)
(* Claims about the life of a store.                                       *)
(***************************************************************************)
\* a store has just been built from the files
Loaded == sr_call.op = "load"

\* a store has just been built from the files a returned save left
LoadedAfterSave == Loaded /\ sr_call.after_save

WrongLengthCall ==
    \/ sr_call.op = "add_vector" /\ Len(sr_call.vector) # Dimension
    \/ sr_call.op = "search" /\ Len(sr_call.query_vector) # Dimension

\* C13: an add or search call whose vector length differs from the
\* configured dimension fails with an error, and the add leaves the store
\* without a new vector, text or metadata entry.
C13_WrongDimensionFails ==
    WrongLengthCall =>
        /\ sr_result.raised
        /\ sr_call.op = "add_vector" => ThisStore = sr_call.before

\* a file on disk cannot be read
SomeFileUnreadable == fs_index = FileCorrupt \/ fs_meta = FileCorrupt

\* C14: when a step of loading fails (the index file or the JSON file cannot
\* be read) construction does not raise and the store is empty: no vector,
\* no text, no metadata entry, and an index of the configured dimension.
C14_FailedLoadGivesEmptyStore ==
    (Loaded /\ SomeFileUnreadable) =>
        /\ ~sr_result.raised
        /\ vs_index = <<>>
        /\ vs_texts = <<>>
        /\ vs_metadata = <<>>
        /\ vs_dim = Dimension

\* a load read an index file that holds a vector and then failed on the
\* JSON file
C14_Witness ==
    /\ Loaded
    /\ fs_index.state = "ok"
    /\ Len(fs_index.data.vectors) >= 1
    /\ fs_meta = FileCorrupt
    /\ sr_call.before.index # <<>>
    /\ vs_index = <<>>

\* an add_vector call has returned and its outcome is still held
AddReturned == sr_call.op = "add_vector" /\ ~sr_result.raised

\* C15: add returns the number of entries stored before the call; the
\* vector, the text and the metadata at that position are the ones passed,
\* and the entries stored before are where they were.
C15_AddReturnsOrdinal ==
    AddReturned =>
        LET id == sr_result.id
        IN  /\ id = Len(sr_call.before.index)
            /\ id = Len(sr_call.before.texts)
            /\ id = Len(sr_call.before.metadata)
            /\ Len(vs_index) = id + 1
            /\ vs_index[id + 1] = Normalize(sr_call.vector)
            /\ Len(vs_texts) = id + 1
            /\ vs_texts[id + 1] = sr_call.text
            /\ Len(vs_metadata) = id + 1
            /\ vs_metadata[id + 1] = OrEmptyDict(sr_call.metadata)
            /\ IsPrefix(sr_call.before.index, vs_index)
            /\ IsPrefix(sr_call.before.texts, vs_texts)
            /\ IsPrefix(sr_call.before.metadata, vs_metadata)

\* C16: search on an index that holds no vector returns an empty list and
\* does not raise, whatever the query vector, top_k and threshold.
C16_EmptyIndexSearch ==
    (sr_call.op = "search" /\ vs_index = <<>>) =>
        /\ ~sr_result.raised
        /\ sr_result.results = <<>>

\* such a search was made with a vector of another length on a store that
\* holds texts but no vector
C16_Witness ==
    /\ sr_call.op = "search"
    /\ vs_index = <<>>
    /\ Len(sr_call.query_vector) # Dimension
    /\ vs_texts # <<>>
    /\ sr_result.results = <<>>

\* C26: in every state of the life of a store the index holds as many
\* vectors as there are stored texts and stored metadata entries.
C26_IndexTextsMetadataAligned ==
    /\ Len(vs_index) = Len(vs_texts)
    /\ Len(vs_texts) = Len(vs_metadata)

(***************************************************************************)
(* Specification of a processor in use: extract_text (of plain text       *)
(* files) and chunk_text are called in any order on one DocumentProcessor, *)
(* whose chunk_size and chunk_overlap were read from the settings at       *)
(* construction.  sr_call is the last call; sr_result holds history only:  *)
(* the processor as it was before that call, and, by text, the processor   *)
(* and the chunks of the first chunk_text call made with the text before   *)
(* that call.                                                              *)
(***************************************************************************)
\* the texts handed to chunk_text
ProcTexts ==
    {<<".">>, <<"a", ".", "b">>, <<"a", " ", "b", ".", "a">>, <<"b", " ", "a", " ", "b">>}

\* the decoded contents of the files handed to extract_text
ProcContents == {<<"a">>, <<"a", "\n", "b">>, <<"\n", "a", "\n">>}

\* the attributes of the DocumentProcessor
Processor ==
    [chunk_size   |-> ck_size,
     chunk_overlap |-> ck_overlap,
     line_endings |-> dp_line_endings,
     page_breaks  |-> dp_page_breaks]

\* _extract_from_text_with_coordinates: the positions (from 0) of the line breaks
LineEndings(text) ==
    LET IsLineEnd(i) == text[i + 1] = "\n"
    IN  SelectSeq([i \in 1..Len(text) |-> i - 1], IsLineEnd)

\* extract_text on a .txt file: the tracking is reset, then filled
ExtractTextProcessor(processor, content) ==
    [processor EXCEPT !.line_endings = LineEndings(content), !.page_breaks = <<>>]

\* a chunk_text that resets the coordinate tracking as extract_text does
ChunkTextProcessor_ResetsTracking(processor) ==
    [processor EXCEPT !.line_endings = <<>>, !.page_breaks = <<>>]

\* chunk_text: it assigns no attribute of the processor
ChunkTextProcessor(processor) == processor

\* the first chunk_text calls by text, the last chunk_text call included
FirstCalls ==
    LET earlier == sr_result.earlier
    IN  IF ck_pc = "done" /\ ck_text \notin DOMAIN earlier
        THEN [text \in DOMAIN earlier \cup {ck_text} |->
                IF text = ck_text
                THEN [chunks |-> ck_chunks, processor |-> sr_result.chunked_by]
                ELSE earlier[text]]
        ELSE earlier

ProcInit ==
    /\ ck_pc = "ready"
    /\ ck_text = <<>>
    /\ ck_size \in 1..MaxChunkSize
    /\ ck_overlap \in 0..(ck_size - 1)
    /\ ck_chunks = <<>>
    /\ TrackingEmpty
    /\ sr_call = NoCall
    /\ sr_result = [before |-> Processor, chunked_by |-> Processor, earlier |-> EmptyDict]
    /\ StoreEmpty
    /\ ChatIdle
    /\ KBStoreEmpty
    /\ KBIdle

ProcExtractText(content) ==
    /\ LET after == ExtractTextProcessor(Processor, content)
       IN  /\ dp_line_endings' = after.line_endings
           /\ dp_page_breaks' = after.page_breaks
           /\ ck_size' = after.chunk_size
           /\ ck_overlap' = after.chunk_overlap
    /\ sr_call' = [op |-> "extract_text", content |-> content]
    /\ sr_result' = [sr_result EXCEPT !.before = Processor, !.earlier = FirstCalls]
    /\ UNCHANGED <<ck_pc, ck_text, ck_chunks>>
    /\ UNCHANGED <<vs_vars, fs_vars, kb_vars, db_vars>>

ProcChunkText(text) ==
    /\ ck_text' = text
    /\ ck_chunks' = ChunkText(text, ck_size, ck_overlap)
    /\ ck_pc' = "done"
    /\ LET after == ChunkTextProcessor(Processor)
       IN  /\ dp_line_endings' = after.line_endings
           /\ dp_page_breaks' = after.page_breaks
           /\ ck_size' = after.chunk_size
           /\ ck_overlap' = after.chunk_overlap
    /\ sr_call' = [op |-> "chunk_text", text |-> text]
    /\ sr_result' = [before |-> Processor, chunked_by |-> Processor, earlier |-> FirstCalls]
    /\ UNCHANGED <<vs_vars, fs_vars, kb_vars, db_vars>>

ProcNext ==
    \/ \E content \in ProcContents : ProcExtractText(content)
    \/ \E text \in ProcTexts : ProcChunkText(text)

SpecProc == ProcInit /\ [][ProcNext]_vars

\* the last call was chunk_text
ChunkTextReturned == sr_call.op = "chunk_text"

\* the last call was chunk_text on a text that chunk_text was given before
ChunkedBefore == ChunkTextReturned /\ sr_call.text \in DOMAIN sr_result.earlier

MaxChunkIndex == 2

\* the number of search_queries
ContextQueries == 3

\* top_k of each search
ContextTopK == 3

\* the slice of the returned list
ContextLimit == 5

\* document names; the second ends as a dedup key of the first does
ContextDocuments == << <<"a">>, <<"a", "_", "0">> >>

DigitChars == <<"0", "1", "2", "3", "4", "5", "6", "7", "8", "9">>

\* str(n) of a non-negative integer
RECURSIVE IntToStr(_)
IntToStr(n) ==
    IF n < Len(DigitChars) THEN <<DigitChars[n + 1]>>
    ELSE IntToStr(n \div Len(DigitChars)) \o <<DigitChars[(n % Len(DigitChars)) + 1]>>

\* f"{ctx['document']}_{ctx['chunk_index']}"
ContextKey(ctx) == ctx.document \o <<"_">> \o IntToStr(ctx.chunk_index)

\* a merge that keeps the first result seen for a key, whatever its score
MergeContext_KeepsFirst(unique_context, ctx) ==
    IF \E n \in 1..Len(unique_context) : unique_context[n].key = ContextKey(ctx)
    THEN unique_context
    ELSE Append(unique_context, [key |-> ContextKey(ctx), value |-> ctx])

\* one turn of the dedup loop: unique_context[key] = ctx when the key is
\* new (the item goes last) or ctx scores higher (the item keeps its place)
MergeContext(unique_context, ctx) ==
    IF \E n \in 1..Len(unique_context) : unique_context[n].key = ContextKey(ctx)
    THEN LET n == CHOOSE n \in 1..Len(unique_context) :
                      unique_context[n].key = ContextKey(ctx)
         IN  IF ctx.score > unique_context[n].value.score
             THEN [unique_context EXCEPT ![n].value = ctx]
             ELSE unique_context
    ELSE Append(unique_context, [key |-> ContextKey(ctx), value |-> ctx])

\* the dedup loop over all_context
RECURSIVE UniqueContext(_, _)
UniqueContext(unique_context, all_context) ==
    IF all_context = <<>> THEN unique_context
    ELSE UniqueContext(MergeContext(unique_context, Head(all_context)), Tail(all_context))

\* all_context: the results of the searches, one after the other
RECURSIVE AllContext(_)
AllContext(searches) ==
    IF searches = <<>> THEN <<>> ELSE Head(searches) \o AllContext(Tail(searches))

\* list(unique_context.values())
DictValues(dict) == [n \in 1..Len(dict) |-> dict[n].value]

\* _get_relevant_context, given what the searches returned
GetRelevantContext(searches) ==
    LET values == DictValues(UniqueContext(<<>>, AllContext(searches)))
    IN  SubSeq(values, 1, Min(ContextLimit, Len(values)))

\* the chunks of the knowledge base, numbered from 0
NumContextChunks == Len(ContextDocuments) * (MaxChunkIndex + 1)

\* what search_knowledge_base can return for a query: at most top_k results
\* of distinct chunks, above the threshold, best first
SearchResults(start, length, best) ==
    [n \in 1..length |->
        LET chunk == (start + n - 1) % NumContextChunks
        IN  [document    |-> ContextDocuments[(chunk \div (MaxChunkIndex + 1)) + 1],
             chunk_index |-> chunk % (MaxChunkIndex + 1),
             score       |-> best - (n - 1)]]

BestScores == {60, 80}

PossibleResults ==
    {<<>>} \cup {SearchResults(start, length, best) :
                    start \in 0..(NumContextChunks - 1),
                    length \in 1..ContextTopK,
                    best \in BestScores}

ContextInit ==
    /\ sr_call \in [op : {"get_relevant_context"},
                    searches : [1..ContextQueries -> PossibleResults]]
    /\ sr_result = NoCall
    /\ StoreEmpty
    /\ ChunkIdle
    /\ TrackingEmpty
    /\ ChatIdle
    /\ KBStoreEmpty
    /\ KBIdle

ContextCall ==
    /\ sr_result = NoCall
    /\ sr_result' = [op      |-> "get_relevant_context",
                     unique  |-> DictValues(UniqueContext(<<>>, AllContext(sr_call.searches))),
                     context |-> GetRelevantContext(sr_call.searches)]
    /\ UNCHANGED <<sr_call, vs_vars, ck_vars, fs_vars, kb_vars, dp_vars, db_vars>>

ContextNext == ContextCall

SpecContext == ContextInit /\ [][ContextNext]_vars

ContextReturned == sr_result # NoCall

\* two results are of one chunk: the same document name and chunk index
SameChunk(a, b) == a.document = b.document /\ a.chunk_index = b.chunk_index

\* C22: the merged context holds at most one entry per (document name,
\* chunk index), and that entry carries the highest score among all the
\* results of the queries for that document name and chunk index.
C22_OneEntryPerChunkBestScore ==
    ContextReturned =>
        LET context == sr_result.context
            all_context == AllContext(sr_call.searches)
        IN  /\ \A m, n \in 1..Len(context) : SameChunk(context[m], context[n]) => m = n
            /\ \A m \in 1..Len(sr_result.unique), n \in 1..Len(sr_result.unique) :
                   SameChunk(sr_result.unique[m], sr_result.unique[n]) => m = n
            /\ \A n \in 1..Len(context), k \in 1..Len(all_context) :
                   SameChunk(context[n], all_context[k])
                       => all_context[k].score <= context[n].score

\* a chunk found by two queries, first with the lower score, is returned once
\* with the higher score
C22_Witness ==
    /\ ContextReturned
    /\ \E n \in 1..Len(sr_result.context) :
           /\ \E k \in 1..Len(sr_call.searches[1]) :
                  /\ SameChunk(sr_call.searches[1][k], sr_result.context[n])
                  /\ sr_call.searches[1][k].score < sr_result.context[n].score
           /\ \E k \in 1..Len(sr_call.searches[2]) :
                  sr_call.searches[2][k] = sr_result.context[n]

\* C28: _get_relevant_context returns at most 5 entries, and no merged,
\* de-duplicated entry left out of the returned list has a strictly higher
\* score than an entry that is returned.
C28_TopFiveByScore ==
    ContextReturned =>
        /\ Len(sr_result.context) <= ContextLimit
        /\ \A m \in 1..Len(sr_result.unique), n \in 1..Len(sr_result.context) :
               (\A k \in 1..Len(sr_result.context) :
                    ~SameChunk(sr_result.unique[m], sr_result.context[k]))
                   => sr_result.unique[m].score <= sr_result.context[n].score

(***************************************************************************)
(* Specification of the classifier: _classify_document_type applied to     *)
(* every file name made of at most MaxNameParts of the parts below, which  *)
(* hold the keywords in several spellings and pieces that make a keyword   *)
(* only when joined.                                                       *)
(***************************************************************************)
MaxNameParts == 2

NameParts ==
    {<<"S", "E", "M", "P">>, <<"s", "e", "m">>, <<"p">>,
     <<"R", "e", "q", "u", "i", "r", "e", "m", "e", "n", "t">>,
     <<"G", "u", "i">>, <<"d", "e">>, KwGuideline,
     <<"S", "t", "a", "n", "d", "a", "r", "d">>, <<"D", "E", "B", "T">>, KwDebt,
     <<"x">>}

RECURSIVE NamesOf(_)
NamesOf(parts) ==
    IF parts = 0 THEN {<<>>}
    ELSE NamesOf(parts - 1)
         \cup {name \o part : name \in NamesOf(parts - 1), part \in NameParts}

ClassifyInit ==
    /\ sr_call \in [op : {"classify_document_type"}, filename : NamesOf(MaxNameParts)]
    /\ sr_result = NoCall
    /\ StoreEmpty
    /\ ChunkIdle
    /\ TrackingEmpty
    /\ ChatIdle
    /\ KBStoreEmpty
    /\ KBIdle

ClassifyCall ==
    /\ sr_result = NoCall
    /\ sr_result' = [op |-> "classify_document_type",
                     type |-> ClassifyDocumentType(sr_call.filename)]
    /\ UNCHANGED <<sr_call, vs_vars, ck_vars, fs_vars, kb_vars, dp_vars, db_vars>>

ClassifyNext == ClassifyCall

SpecClassify == ClassifyInit /\ [][ClassifyNext]_vars

Classified == sr_result # NoCall

\* the keywords in the order of the claim, each with its type
KeywordTypes ==
    <<[keyword |-> KwSemp, type |-> "SEMP"],
      [keyword |-> KwRequirement, type |-> "Requirements"],
      [keyword |-> KwGuide, type |-> "Guide"],
      [keyword |-> KwGuideline, type |-> "Guide"],
      [keyword |-> KwStandard, type |-> "Standard"],
      [keyword |-> KwDebt, type |-> "Debt_Detection"]>>

\* keyword number n occurs in the file name, in whatever case
Occurs(n, filename) ==
    \E i \in 0..(Len(filename) - Len(KeywordTypes[n].keyword)) :
        \A j \in 1..Len(KeywordTypes[n].keyword) :
            LET c == filename[i + j]
            IN  \/ c = KeywordTypes[n].keyword[j]
                \/ c \in DOMAIN CaseMap /\ CaseMap[c] = KeywordTypes[n].keyword[j]

\* C24: the type is that of the first keyword, in the order semp,
\* requirement, guide (or guideline), standard, debt, that occurs in the file
\* name in whatever case; it is General exactly when no keyword occurs.
C24_FirstKeywordDecides ==
    Classified =>
        /\ \A n \in 1..Len(KeywordTypes) :
               (Occurs(n, sr_call.filename) /\ \A m \in 1..(n - 1) : ~Occurs(m, sr_call.filename))
                   => sr_result.type = KeywordTypes[n].type
        /\ sr_result.type = "General"
               <=> \A n \in 1..Len(KeywordTypes) : ~Occurs(n, sr_call.filename)

\* a name that holds two keywords, the later one first and the earlier one
\* in capitals, gets the type of the earlier keyword
C24_Witness ==
    /\ Classified
    /\ Occurs(1, sr_call.filename)
    /\ Occurs(6, sr_call.filename)
    /\ ~Contains(sr_call.filename, KwSemp)
    /\ Contains(sr_call.filename, KwDebt)
    /\ sr_result.type = "SEMP"

(***************************************************************************)
(* Specification of normalisation: vectors of small, ordinary and very     *)
(* large magnitude are added to an empty store and searched for.             *)
(***************************************************************************)
NormVectors == {<<0, 0>>, <<3, 4>>, <<0, -2>>, <<-8, 6>>, <<30, 40>>}

\* add_vector, with the vector as it was passed kept in the entry's metadata
NormAdd(vector) ==
    /\ CallerReady
    /\ Len(vs_index) < MaxVectors
    /\ LET after == AddVector(ThisStore, vector, "t1", [vector |-> vector])
       IN  /\ vs_index' = after.index
           /\ vs_texts' = after.texts
           /\ vs_metadata' = after.metadata
           /\ vs_dim' = after.d
    /\ UNCHANGED <<sr_vars, ck_vars, fs_vars, kb_vars, dp_vars, db_vars>>

NormNext ==
    \/ \E vector \in NormVectors : NormAdd(vector)
    \/ StoreSearchDone
    \/ \E query_vector \in NormVectors, top_k \in 1..MaxTopK :
          StoreSearch(query_vector, top_k, -ScoreScale)

SpecNorm == StoreInit /\ [][NormNext]_vars

\* two vectors point the same way
SameDirection(u, v) ==
    /\ Dot(u, v) > 0
    /\ \A i, j \in 1..Len(u) : u[i] * v[j] = u[j] * v[i]

IsZero(v) == \A i \in 1..Len(v) : v[i] = 0

\* C25: after add_vector(v, ...) with a nonzero v the stored vector has L2
\* norm 1 and the direction of v; a zero vector is stored unchanged; every
\* search score lies in [-1, 1].
C25_StoredVectorsAreUnit ==
    /\ \A n \in 1..Len(vs_index) :
           IF IsZero(vs_metadata[n].vector)
           THEN vs_index[n] = vs_metadata[n].vector
           ELSE /\ Dot(vs_index[n], vs_index[n]) = ScoreScale
                /\ SameDirection(vs_index[n], vs_metadata[n].vector)
    /\ SearchReturned =>
           \A n \in 1..Len(sr_result.results) :
               /\ sr_result.results[n].score >= -ScoreScale
               /\ sr_result.results[n].score <= ScoreScale

(***************************************************************************)
(* RequirementsDebtAnalyzer.analyze_document: the issues of the sections   *)
(* are gathered, filtered by the severity threshold of the request and     *)
(* counted.  An issue is its severity, its debt type and its section.      *)
(***************************************************************************)
MaxIssues == 2

\* SeverityLevel
SeverityLevels == {"Low", "Medium", "High", "Critical"}

\* DebtType
DebtTypes ==
    {"Ambiguity", "Incompleteness", "Inconsistency", "Traceability Gap",
     "Vague Terminology", "Missing Constraints", "Unclear Acceptance Criteria",
     "Conflicting Requirements", "Outdated Requirements", "Untestable Requirements"}

\* severity_order of _severity_meets_threshold
SeverityOrder == [Low |-> 1, Medium |-> 2, High |-> 3, Critical |-> 4]

\* a _severity_meets_threshold that passes only what lies above the threshold
SeverityMeetsThreshold_Strict(severity, threshold) ==
    SeverityOrder[severity] > SeverityOrder[threshold]

\* _severity_meets_threshold
SeverityMeetsThreshold(severity, threshold) ==
    SeverityOrder[severity] >= SeverityOrder[threshold]

\* _calculate_severity_distribution
CalculateSeverityDistribution(issues) ==
    [level \in SeverityLevels |->
        Cardinality({n \in 1..Len(issues) : issues[n].severity = level})]

\* _calculate_debt_type_distribution
CalculateDebtTypeDistribution(issues) ==
    [debt_type \in DebtTypes |->
        Cardinality({n \in 1..Len(issues) : issues[n].debt_type = debt_type})]

\* the loop over sections.items(): all_issues after the first n sections
RECURSIVE AllIssues(_, _)
AllIssues(sections, n) ==
    IF n = 0 THEN <<>>
    ELSE AllIssues(sections, n - 1) \o sections[n].issues

\* analyze_document: the fields of the AnalysisResult that depend on the
\* issues; sections[n].issues is what _analyze_section returned for the
\* n-th section of the document
AnalyzeDocument(sections, severity_threshold) ==
    LET all_issues == AllIssues(sections, Len(sections))
        Meets(issue) == SeverityMeetsThreshold(issue.severity, severity_threshold)
        filtered_issues == SelectSeq(all_issues, Meets)
    IN  [issues                 |-> filtered_issues,
         total_issues           |-> Len(filtered_issues),
         severity_distribution  |-> CalculateSeverityDistribution(filtered_issues),
         debt_type_distribution |-> CalculateDebtTypeDistribution(filtered_issues)]

(***************************************************************************)
(* Specification of the analysis: a document of two sections whose         *)
(* analyses found up to MaxIssues issues in all, and a threshold.          *)
(***************************************************************************)
SectionNames == <<"s1", "s2">>

IssueDebtTypes == {"Ambiguity", "Traceability Gap"}

IssuesOf(section) ==
    UNION {[1..n -> [severity : SeverityLevels, debt_type : IssueDebtTypes,
                     section : {section}]] : n \in 0..MaxIssues}

AnalysedDocuments ==
    {<<[name |-> SectionNames[1], issues |-> first],
       [name |-> SectionNames[2], issues |-> second]>> :
        <<first, second>> \in
            {pair \in IssuesOf(SectionNames[1]) \X IssuesOf(SectionNames[2]) :
                Len(pair[1]) + Len(pair[2]) <= MaxIssues}}

AnalysisInit ==
    /\ sr_call \in [op : {"analyze_document"}, sections : AnalysedDocuments,
                     severity_threshold : SeverityLevels]
    /\ sr_result = NoCall
    /\ StoreEmpty
    /\ TrackingEmpty
    /\ ChatIdle
    /\ ChunkIdle
    /\ KBStoreEmpty
    /\ KBIdle

AnalysisCall ==
    /\ sr_result = NoCall
    /\ sr_result' = [op |-> "analyze_document"]
                        @@ AnalyzeDocument(sr_call.sections, sr_call.severity_threshold)
    /\ UNCHANGED <<sr_call, vs_vars, ck_vars, fs_vars, kb_vars, dp_vars, db_vars>>

AnalysisNext == AnalysisCall

SpecAnalysis == AnalysisInit /\ [][AnalysisNext]_vars

AnalysisReturned == sr_result # NoCall

\* the levels at or above a threshold in Low < Medium < High < Critical
AtOrAbove(threshold) ==
    IF threshold = "Low" THEN {"Low", "Medium", "High", "Critical"}
    ELSE IF threshold = "Medium" THEN {"Medium", "High", "Critical"}
    ELSE IF threshold = "High" THEN {"High", "Critical"}
    ELSE {"Critical"}

\* the sum of the counts of a distribution
RECURSIVE SumOf(_)
SumOf(distribution) ==
    IF DOMAIN distribution = {} THEN 0
    ELSE LET key == CHOOSE k \in DOMAIN distribution : TRUE
         IN  distribution[key]
               + SumOf([k \in DOMAIN distribution \ {key} |-> distribution[k]])

\* the issues of both sections at or above the threshold of the request
ExpectedIssues ==
    LET AtLeast(issue) == issue.severity \in AtOrAbove(sr_call.severity_threshold)
    IN  SelectSeq(sr_call.sections[1].issues, AtLeast)
          \o SelectSeq(sr_call.sections[2].issues, AtLeast)

\* C29: the AnalysisResult holds exactly the issues of all sections whose
\* severity is at or above the threshold, and total_issues, the sum of
\* severity_distribution and the sum of debt_type_distribution all equal
\* their number.
C29_ResultCountsFilteredIssues ==
    AnalysisReturned =>
        /\ sr_result.issues = ExpectedIssues
        /\ sr_result.total_issues = Len(ExpectedIssues)
        /\ SumOf(sr_result.severity_distribution) = Len(ExpectedIssues)
        /\ SumOf(sr_result.debt_type_distribution) = Len(ExpectedIssues)

\* an analysis returned one issue at the threshold and left out one below it
C29_Witness ==
    /\ AnalysisReturned
    /\ sr_call.severity_threshold = "High"
    /\ Len(sr_call.sections[1].issues) = 1
    /\ sr_call.sections[1].issues[1].severity = "Medium"
    /\ Len(sr_result.issues) = 1
    /\ sr_result.issues[1].severity = "High"
    /\ sr_result.issues[1].section = "s2"

(***************************************************************************)
(* SEMPChatSessionManager over DynamoDBChatClient: db_chat is the item of  *)
(* one session in the chat table.  A message is its role, its content and  *)
(* its metadata.                                                           *)
(***************************************************************************)
MaxMessages == 5

WelcomeMessage ==
    [role |-> "assistant", content |-> "welcome", metadata |-> [type |-> "welcome"]]

ErrorResponse == "error_response"

\* DynamoDBChatClient.create_chat_session: put_item writes the item, or
\* raises a ClientError that is caught
DbCreateChatSession(chat, accepted) ==
    IF accepted THEN [state |-> "active", messages |-> <<>>] ELSE chat

\* DynamoDBChatClient.add_message: update_item appends the message to the
\* messages of the item, which it creates when there is none, or raises a
\* ClientError that is caught
DbAddMessage(chat, role, content, metadata, accepted) ==
    LET message == [role |-> role, content |-> content, metadata |-> metadata]
    IN  IF ~accepted THEN chat
        ELSE IF chat = NoSession
        THEN [state |-> "no_attributes", messages |-> <<message>>]
        ELSE [chat EXCEPT !.messages = Append(@, message)]

\* create_session: the item afterwards
CreateSession(chat, created, welcomed) ==
    IF created
    THEN DbAddMessage(DbCreateChatSession(chat, TRUE), "assistant",
                      WelcomeMessage.content, WelcomeMessage.metadata, welcomed)
    ELSE chat

\* a process_user_message that stores nothing when the handler raises
ProcessUserMessage_SilentError(chat, user_message, handled, user_accepted, assistant_accepted) ==
    LET with_user == DbAddMessage(chat, "user", user_message, EmptyDict, user_accepted)
    IN  IF handled.raised
        THEN [chat |-> with_user, response |-> ErrorResponse]
        ELSE [chat     |-> DbAddMessage(with_user, "assistant", handled.response,
                                        EmptyDict, assistant_accepted),
              response |-> handled.response]

\* process_user_message: the item afterwards and the value returned.
\* handled: the classification and the handler return a response, or one
\* of them raises
ProcessUserMessage(chat, user_message, handled, user_accepted, assistant_accepted) ==
    LET with_user == DbAddMessage(chat, "user", user_message, EmptyDict, user_accepted)
        response == IF handled.raised THEN ErrorResponse ELSE handled.response
    IN  [chat     |-> DbAddMessage(with_user, "assistant", response, EmptyDict,
                                   assistant_accepted),
         response |-> response]

(***************************************************************************)
(* Specification of a chat: a session is created and process_user_message  *)
(* is called time after time; the table may refuse a write.                *)
(***************************************************************************)
UserMessages == {"m1", "m2"}

Handled == {[raised |-> FALSE, response |-> "r1"], [raised |-> FALSE, response |-> "r2"],
            [raised |-> TRUE, response |-> "none"]}

ChatInit ==
    /\ ChatIdle
    /\ SearchIdle
    /\ StoreEmpty
    /\ TrackingEmpty
    /\ ChunkIdle
    /\ KBStoreEmpty
    /\ KBIdle

\* the messages of the item, none when there is no item
MessagesOf(chat) == IF chat = NoSession THEN <<>> ELSE chat.messages

ChatCreateSession(created, welcomed) ==
    /\ db_chat = NoSession
    /\ Fault(~created \/ ~welcomed)
    /\ db_chat' = CreateSession(db_chat, created, welcomed)
    /\ UNCHANGED <<fs_cache, s3_modified, kb_cache, kb_pc, kb_todo, kb_pos, kb_call>>
    /\ UNCHANGED <<fs_index, fs_meta, vs_vars, sr_vars, ck_vars, dp_vars>>

ChatProcessUserMessage(user_message, handled, user_accepted, assistant_accepted) ==
    /\ Len(MessagesOf(db_chat)) + 2 <= MaxMessages
    /\ Fault(~user_accepted \/ ~assistant_accepted)
    /\ LET after == ProcessUserMessage(db_chat, user_message, handled,
                                       user_accepted, assistant_accepted)
       IN  /\ db_chat' = after.chat
           /\ sr_result' = [response |-> after.response]
    /\ sr_call' = [op |-> "process_user_message", user_message |-> user_message,
                   handled |-> handled, user_accepted |-> user_accepted,
                   assistant_accepted |-> assistant_accepted, before |-> db_chat]
    /\ UNCHANGED <<fs_cache, s3_modified, kb_cache, kb_pc, kb_todo, kb_pos, kb_call>>
    /\ UNCHANGED <<fs_index, fs_meta, vs_vars, ck_vars, dp_vars>>

ChatNext ==
    \/ \E created, welcomed \in BOOLEAN : ChatCreateSession(created, welcomed)
    \/ \E user_message \in UserMessages, handled \in Handled,
          user_accepted, assistant_accepted \in BOOLEAN :
            ChatProcessUserMessage(user_message, handled, user_accepted, assistant_accepted)

SpecChat == ChatInit /\ [][ChatNext]_vars

\* process_user_message has returned, called on a session that create_session
\* made, and the table accepted both writes
ProcessedOnSession ==
    /\ sr_call.op = "process_user_message"
    /\ sr_call.before # NoSession
    /\ sr_call.before.state = "active"
    /\ sr_call.user_accepted
    /\ sr_call.assistant_accepted

\* the table has accepted every write so far
EveryWriteAccepted == kb_faults = 0

\* C30: on an existing session whose store accepts the writes,
\* process_user_message appends exactly two messages, the user's message and
\* then an assistant message with the returned response, whether the handler
\* returns or raises; so the messages after the welcome message alternate
\* user, assistant.
C30_UserThenAssistant ==
    /\ ProcessedOnSession =>
          /\ Len(db_chat.messages) = Len(sr_call.before.messages) + 2
          /\ SubSeq(db_chat.messages, 1, Len(sr_call.before.messages))
                = sr_call.before.messages
          /\ db_chat.messages[Len(db_chat.messages) - 1].role = "user"
          /\ db_chat.messages[Len(db_chat.messages) - 1].content = sr_call.user_message
          /\ db_chat.messages[Len(db_chat.messages)].role = "assistant"
          /\ db_chat.messages[Len(db_chat.messages)].content = sr_result.response
    /\ (db_chat # NoSession /\ db_chat.state = "active" /\ EveryWriteAccepted) =>
          /\ db_chat.messages[1] = WelcomeMessage
          /\ \A n \in 2..Len(db_chat.messages) :
                 db_chat.messages[n].role = IF n % 2 = 0 THEN "user" ELSE "assistant"

\* after a call whose handler returned, a call whose handler raised has
\* stored the user's message and the error response
C30_Witness ==
    /\ ProcessedOnSession
    /\ EveryWriteAccepted
    /\ sr_call.handled.raised
    /\ Len(db_chat.messages) = 5
    /\ db_chat.messages[3].content = "r1"
    /\ db_chat.messages[5].content = ErrorResponse

=============================================================================
